---- MODULE Spec2Model ----
(***************************************************************************)
(* A model of modules/processing_ex.py: the conditioning cache of          *)
(* process_images_inner, the img2img request StableDiffusionProcessing-    *)
(* Img2ImgEx (mask normalisation, init, sample) and the orchestrator       *)
(* process_images / process_images_inner.                                  *)
(***************************************************************************)
EXTENDS Integers, Sequences, FiniteSets, TLC

VARIABLES
    cached_uc,   \* process_images_inner: cached_uc = [key, result]
    cached_c,    \* process_images_inner: cached_c  = [key, result]
    ncompute,    \* number of invocations of the conditioning function so far
    calls,       \* the get_conds_with_caching calls made so far, in order
    masks,       \* the masks argument the constructor was called with
    self,        \* the StableDiffusionProcessingImg2ImgEx object (its attributes)
    ipc,         \* where the life of that object stands
    crop_region, \* init: the local crop_region
    imgs,        \* init: the local imgs
    mask_regions,\* init: the crop region computed from each mask, in order
    image_crops, \* init: the crop region each image was cropped with, in order
    sampler_out, \* sample: what sampler.sample_img2img returned
    samples,     \* sample: the value returned
    pasted,      \* apply_overlay: the paste_loc each output image was pasted at
    opts,        \* shared.opts: the global options
    opts0,       \* the global options as they were when process_images was called
    loaded,      \* the checkpoint and the VAE whose weights are loaded
    p,           \* the request given to process_images
    state,       \* shared.state: interrupted, skipped, job_no, job_count
    pc,          \* where process_images / process_images_inner stands
    stored_opts, \* process_images: stored_opts
    loc,         \* the locals of process_images and process_images_inner
    output_images, \* process_images_inner: output_images
    infotexts,   \* process_images_inner: infotexts
    res,         \* the Processed result, None until it is built
    exc,         \* the exception that is propagating, None when there is none
    hist,        \* what the run has done so far, per iteration
    rng,         \* the global random generator: <<seed it was set to, values drawn since>>
    sampler_noises, \* p.sampler.sampler_noises
    noise_call,  \* the last call of create_random_tensors: arguments, state before, result
    slerp_call,  \* the last call of slerp: arguments and result
    output_widths \* the width of each image apply_overlay has returned in this batch

cacheVars == <<cached_uc, cached_c, ncompute, calls>>

imgVars == <<masks, self, ipc, crop_region, imgs, mask_regions, image_crops, sampler_out, samples, pasted,
             output_widths>>

runVars == <<opts, opts0, loaded, p, state, pc, stored_opts, loc, output_images, infotexts, res, exc, hist>>

noiseVars == <<rng, sampler_noises, noise_call, slerp_call>>

vars == <<cached_uc, cached_c, ncompute, calls,
          masks, self, ipc, crop_region, imgs, mask_regions, image_crops, sampler_out, samples, pasted,
          output_widths,
          opts, opts0, loaded, p, state, pc, stored_opts, loc, output_images, infotexts, res, exc, hist,
          rng, sampler_noises, noise_call, slerp_call>>

(***************************************************************************)
(* Bounds of the model.                                                    *)
(***************************************************************************)
MaxCalls == 4
MaxRaisingCalls == 3

\* Python's None, for a cache cell (a key is a pair, a result a 4-tuple).
None == <<>>

(***************************************************************************)
(* The conditioning cache (process_images_inner, lines 408-429).           *)
(***************************************************************************)

\* The prompt lists and step counts the cache is queried with.
PromptLists == {<<"a">>, <<"a", "b">>}
StepCounts == {20, 40}
CondFunctions == {"get_learned_conditioning", "get_multicond_learned_conditioning"}

\* function(shared.sd_model, required_prompts, steps): an opaque call; every
\* invocation yields a new object, told apart by the invocation number.
Compute(function, required_prompts, steps, nonce) ==
    <<function, required_prompts, steps, nonce>>

\* get_conds_with_caching compared on the prompt list alone.
GetCondsIgnoringSteps(function, required_prompts, steps, cache, nonce) ==
    IF cache[1] # None /\ required_prompts = cache[1][1]
    THEN [cache |-> cache, result |-> cache[2], invoked |-> FALSE]
    ELSE LET r == Compute(function, required_prompts, steps, nonce)
         IN  [cache |-> <<<<required_prompts, steps>>, r>>, result |-> r, invoked |-> TRUE]

\* get_conds_with_caching that stores the key of the first query only.
GetCondsKeepingFirstKey(function, required_prompts, steps, cache, nonce) ==
    IF cache[1] # None /\ <<required_prompts, steps>> = cache[1]
    THEN [cache |-> cache, result |-> cache[2], invoked |-> FALSE]
    ELSE LET r == Compute(function, required_prompts, steps, nonce)
         IN  [cache |-> <<IF cache[1] = None THEN <<required_prompts, steps>> ELSE cache[1], r>>,
              result |-> r, invoked |-> TRUE]

\* get_conds_with_caching(function, required_prompts, steps, cache): the new
\* content of the cache cell, the value returned and whether function ran.
GetCondsWithCaching(function, required_prompts, steps, cache, nonce) ==
    IF cache[1] # None /\ <<required_prompts, steps>> = cache[1]
    THEN [cache |-> cache, result |-> cache[2], invoked |-> FALSE]
    ELSE LET r == Compute(function, required_prompts, steps, nonce)
         IN  [cache |-> <<<<required_prompts, steps>>, r>>, result |-> r, invoked |-> TRUE]

NewCache == <<None, None>>

CallRecord(slot, prompts, steps, g) ==
    [slot |-> slot, key |-> <<prompts, steps>>, invoked |-> g.invoked, result |-> g.result]

\* uc = get_conds_with_caching(get_learned_conditioning, ..., cached_uc)
QueryUc(prompts, steps) ==
    LET g == GetCondsWithCaching("get_learned_conditioning", prompts, steps, cached_uc, ncompute + 1)
    IN  /\ cached_uc' = g.cache
        /\ ncompute' = IF g.invoked THEN ncompute + 1 ELSE ncompute
        /\ calls' = Append(calls, CallRecord("uc", prompts, steps, g))
        /\ UNCHANGED cached_c

\* c = get_conds_with_caching(get_multicond_learned_conditioning, ..., cached_c)
QueryC(prompts, steps) ==
    LET g == GetCondsWithCaching("get_multicond_learned_conditioning", prompts, steps, cached_c, ncompute + 1)
    IN  /\ cached_c' = g.cache
        /\ ncompute' = IF g.invoked THEN ncompute + 1 ELSE ncompute
        /\ calls' = Append(calls, CallRecord("c", prompts, steps, g))
        /\ UNCHANGED cached_uc

CacheIdle ==
    /\ cached_uc = NewCache
    /\ cached_c = NewCache
    /\ ncompute = 0
    /\ calls = <<>>

ImgIdle ==
    /\ masks = None
    /\ self = None
    /\ ipc = "idle"
    /\ crop_region = None
    /\ imgs = <<>>
    /\ mask_regions = <<>>
    /\ image_crops = <<>>
    /\ sampler_out = None
    /\ samples = None
    /\ pasted = <<>>
    /\ output_widths = <<>>

\* No call of create_random_tensors or slerp has been made; the generator is
\* as the process start left it.
NoiseIdle ==
    /\ rng = <<1, 0>>
    /\ sampler_noises = None
    /\ noise_call = None
    /\ slerp_call = None

\* The option keys a request may override, in the order of the dictionary.
OverrideKeys == <<"sd_model_checkpoint", "sd_vae", "CLIP_stop_at_last_layers">>

\* sd_models.checkpoint_alisases: the checkpoints that can be found.
checkpoint_alisases == {"ckpt_A", "ckpt_B"}

\* The VAE checkpoints that can be found.
vae_dict == {"vae_A", "vae_B"}

\* No exception is propagating.
NoException == "None"

\* The options of a fresh process.
DefaultOpts ==
    [sd_model_checkpoint |-> "ckpt_A",
     sd_vae |-> "vae_A",
     CLIP_stop_at_last_layers |-> "1",
     return_grid |-> TRUE,
     grid_save |-> FALSE,
     grid_only_if_multiple |-> TRUE,
     return_mask |-> FALSE,
     return_mask_composite |-> FALSE,
     enable_batch_seeds |-> TRUE,
     eta_noise_seed_delta |-> 0,
     save |-> TRUE,
     samples_save |-> TRUE,
     save_images_before_face_restoration |-> FALSE,
     save_images_before_color_correction |-> FALSE,
     save_mask |-> FALSE,
     save_mask_composite |-> FALSE]

NoHist ==
    [checked |-> {}, seen_at |-> -1, mid |-> {}, nonempty |-> {}, sampled |-> {},
     decoded |-> {}, posted |-> {}, jobs |-> {}, stop |-> "none",
     dropped |-> FALSE, empty_at |-> -1, cond |-> {}, nan_at |-> -1,
     steps |-> <<>>, grid |-> "pending",
     callbacks |-> <<>>, done |-> {}, params_txt |-> <<>>, sampled_with |-> {}]

\* process_images has not been called; the options are o.
RunIdleWith(o) ==
    /\ opts = o
    /\ opts0 = o
    /\ loaded = [checkpoint |-> "ckpt_A", vae |-> "vae_A"]
    /\ p = None
    /\ state = [interrupted |-> FALSE, skipped |-> FALSE, job_no |-> 0, job_count |-> -1]
    /\ pc = "idle"
    /\ stored_opts = None
    /\ loc = None
    /\ output_images = <<>>
    /\ infotexts = <<>>
    /\ res = None
    /\ exc = NoException
    /\ hist = NoHist

RunIdle == RunIdleWith(DefaultOpts)

CacheInit == CacheIdle /\ ImgIdle /\ RunIdle /\ NoiseIdle

CallUc ==
    /\ Len(calls) < MaxCalls
    /\ \E pl \in PromptLists, s \in StepCounts : QueryUc(pl, s)
    /\ UNCHANGED imgVars
    /\ UNCHANGED runVars
    /\ UNCHANGED noiseVars

CallC ==
    /\ Len(calls) < MaxCalls
    /\ \E pl \in PromptLists, s \in StepCounts : QueryC(pl, s)
    /\ UNCHANGED imgVars
    /\ UNCHANGED runVars
    /\ UNCHANGED noiseVars

CacheNext == CallUc \/ CallC

SpecCache == CacheInit /\ [][CacheNext]_vars

\* A cell whose key is stored before function is called.
CacheAfterRaiseKeyStored(required_prompts, steps, cache) ==
    <<<<required_prompts, steps>>, cache[2]>>

\* The cell after function has raised on line 426: the assignments of lines
\* 426 and 428 have not taken place.
CacheAfterRaise(required_prompts, steps, cache) == cache

\* get_conds_with_caching when function may raise: on a miss the exception
\* leaves through lines 425-426 and nothing is returned.
GetCondsOrRaise(function, required_prompts, steps, cache, nonce, raises) ==
    IF raises /\ ~(cache[1] # None /\ <<required_prompts, steps>> = cache[1])
    THEN [cache |-> CacheAfterRaise(required_prompts, steps, cache), result |-> None,
          invoked |-> TRUE, raised |-> TRUE]
    ELSE LET g == GetCondsWithCaching(function, required_prompts, steps, cache, nonce)
         IN  [cache |-> g.cache, result |-> g.result, invoked |-> g.invoked, raised |-> FALSE]

\* A call of get_conds_with_caching on either slot, in which function may
\* raise; the record of the call keeps the cell as it was before and after.
CallOrRaise ==
    /\ Len(calls) < MaxRaisingCalls
    /\ \E slot \in {"uc", "c"}, pl \in PromptLists, s \in StepCounts, raises \in BOOLEAN :
          LET function == IF slot = "uc" THEN "get_learned_conditioning"
                          ELSE "get_multicond_learned_conditioning"
              cell == IF slot = "uc" THEN cached_uc ELSE cached_c
              g == GetCondsOrRaise(function, pl, s, cell, ncompute + 1, raises)
          IN  /\ cached_uc' = IF slot = "uc" THEN g.cache ELSE cached_uc
              /\ cached_c' = IF slot = "c" THEN g.cache ELSE cached_c
              /\ ncompute' = IF g.invoked THEN ncompute + 1 ELSE ncompute
              /\ calls' = Append(calls, [slot |-> slot, key |-> <<pl, s>>, invoked |-> g.invoked,
                                         result |-> g.result, raised |-> g.raised,
                                         before |-> cell, after |-> g.cache])
    /\ UNCHANGED imgVars
    /\ UNCHANGED runVars
    /\ UNCHANGED noiseVars

\* Sequences of get_conds_with_caching calls in which function may raise.
SpecCacheRaise == CacheInit /\ [][CallOrRaise]_vars

\* The previous call on the same slot as call j, 0 when there is none.
PrevOnSlot(j) ==
    LET S == {i \in 1..(j - 1) : calls[i].slot = calls[j].slot}
    IN  IF S = {} THEN 0 ELSE CHOOSE i \in S : \A k \in S : k <= i

SlotCell(slot) == IF slot = "uc" THEN cached_uc ELSE cached_c

\* C4: of two consecutive calls on one slot with equal (prompt list, steps) the
\* second does not invoke the compute function and returns the result of the
\* first, so the pair invokes it once; a call with the same prompts and another
\* steps value invokes it again; the first call on a slot invokes it.
C4_HitOnEqualKey ==
    /\ \A j \in 1..Len(calls) :
         LET i == PrevOnSlot(j) IN
         /\ i = 0 => calls[j].invoked
         /\ (i # 0 /\ calls[i].key = calls[j].key) =>
                (~calls[j].invoked /\ calls[j].result = calls[i].result)
         /\ (i # 0 /\ calls[i].key[1] = calls[j].key[1] /\ calls[i].key[2] # calls[j].key[2]) =>
                (calls[j].invoked /\ calls[j].result # calls[i].result)
    /\ ncompute = Cardinality({j \in 1..Len(calls) : calls[j].invoked})

\* Two calls with an equal key followed by one with other steps, on one slot.
C4_Witness ==
    /\ Len(calls) = 3
    /\ calls[1].slot = "c" /\ calls[2].slot = "c" /\ calls[3].slot = "c"
    /\ calls[1].key = calls[2].key
    /\ calls[3].key[1] = calls[2].key[1] /\ calls[3].key[2] # calls[2].key[2]
    /\ ncompute = 2

\* C5: each slot holds exactly the key and result of its most recent query (one
\* entry), a query with a key other than the slot's invokes the compute
\* function (so A, B, A invokes it three times), and a query on one slot
\* leaves the other slot's key and result as they were.
C5_SingleEntryPerSlot ==
    /\ [](\A slot \in {"uc", "c"} :
            LET S == {i \in 1..Len(calls) : calls[i].slot = slot} IN
            /\ S = {} => SlotCell(slot) = NewCache
            /\ S # {} =>
                 LET l == CHOOSE i \in S : \A k \in S : k <= i
                 IN  SlotCell(slot) = <<calls[l].key, calls[l].result>>
            /\ \A j \in S : LET i == PrevOnSlot(j)
                            IN  (i # 0 /\ calls[i].key # calls[j].key) => calls[j].invoked)
    /\ [][/\ Len(calls') = Len(calls) + 1
          /\ calls'[Len(calls')].slot = "uc" => cached_c' = cached_c
          /\ calls'[Len(calls')].slot = "c" => cached_uc' = cached_uc]_vars

\* The query sequence A, B, A on the unconditional slot: three invocations.
C5_Witness ==
    /\ Len(calls) = 3
    /\ \A i \in 1..3 : calls[i].slot = "uc"
    /\ calls[1].key = calls[3].key /\ calls[1].key # calls[2].key
    /\ ncompute = 3

(***************************************************************************)
(* StableDiffusionProcessingImg2ImgEx (lines 621-807).  Images and masks   *)
(* are rows of Width pixels with values 0..255; a latent has opt_C         *)
(* channels of Width \div opt_f cells; a crop region is <<x1, x2>>, the    *)
(* pixels x1+1..x2 of a row.                                               *)
(***************************************************************************)
opt_C == 4
opt_f == 8
Width == 16
MaxImages == 2
MaxMasks == 3

Min(a, b) == IF a < b THEN a ELSE b
Max(a, b) == IF a > b THEN a ELSE b

RECURSIVE SumSeq(_)
SumSeq(s) == IF s = <<>> THEN 0 ELSE Head(s) + SumSeq(Tail(s))

\* A mask whose pixels a..b are white.
MaskRow(a, b) == [x \in 1..Width |-> IF a <= x /\ x <= b THEN 255 ELSE 0]

\* The masks a caller passes.
MaskPool == {MaskRow(1, 11), MaskRow(12, 16)}

\* The j-th source image.
ImageRow(j) == [x \in 1..Width |-> (40 * j + 3 * x) % 256]

\* The seeds of the request (p.all_seeds).
AllSeeds(n) == [i \in 1..n |-> 99 + i]

\* The sub-seeds of the request (p.all_subseeds).
AllSubseeds(n) == [i \in 1..n |-> 199 + i]

\* ImageOps.invert
Invert(row) == [x \in 1..Len(row) |-> 255 - row[x]]

\* ImageFilter.GaussianBlur, as a three-tap kernel clamped at the edges.
GaussianBlur(row) ==
    [x \in 1..Len(row) |->
        (row[Max(x - 1, 1)] + 2 * row[x] + row[Min(x + 1, Len(row))]) \div 4]

\* masking.get_crop_region(mask, pad): the box of the non-zero pixels, grown
\* by pad and clamped to the mask; the full frame for an all-zero mask.
get_crop_region(row, pad) ==
    LET nz == {x \in 1..Len(row) : row[x] # 0}
        lo == CHOOSE x \in nz : \A y \in nz : x <= y
        hi == CHOOSE x \in nz : \A y \in nz : y <= x
    IN  IF nz = {} THEN <<0, Len(row)>>
        ELSE <<Max(lo - 1 - pad, 0), Min(hi + pad, Len(row))>>

\* masking.expand_crop_region: a row has no aspect ratio to match, the region
\* is clamped to [0, mask_w].
expand_crop_region(region, mask_w) == <<Max(region[1], 0), Min(region[2], mask_w)>>

\* Image.crop
Crop(row, region) == SubSeq(row, region[1] + 1, region[2])

\* images.resize_image(mode, im, width, height): nearest-pixel resampling.
resize_image(row, w) == [x \in 1..w |-> row[((x - 1) * Len(row)) \div w + 1]]

\* Image.resize down to the latent size: the mean of each block, rounded.
PilResize(row, w) ==
    LET f == Len(row) \div w
    IN  [x \in 1..w |-> (2 * SumSeq(SubSeq(row, (x - 1) * f + 1, x * f)) + f) \div (2 * f)]

\* np.clip(np_mask * 2, 0, 255)
ClipDouble(row) == [x \in 1..Len(row) |-> Min(2 * row[x], 255)]

\* masking.fill(image, mask): the pixels under the mask take the mean of the
\* pixels outside it.
Fill(image, mask_row) ==
    LET outside == {x \in 1..Len(image) : mask_row[x] = 0}
        mean == IF outside = {} THEN 0
                ELSE SumSeq([k \in 1..Len(image) |-> IF k \in outside THEN image[k] ELSE 0])
                       \div Cardinality(outside)
    IN  [x \in 1..Len(image) |-> IF x \in outside THEN image[x] ELSE mean]

\* sd_model.get_first_stage_encoding(sd_model.encode_first_stage(image)): an
\* opaque function of the image, per channel and cell.
Encode(image) ==
    [c \in 1..opt_C |->
        [x \in 1..(Len(image) \div opt_f) |->
            ((SumSeq(SubSeq(image, (x - 1) * opt_f + 1, x * opt_f)) + 5 * c) % 19) - 9]]

\* The rows a generator draws from: vectors whose norm is an integer, so that
\* the cosine between two of them is a rational number.
NoiseRows == <<<<3, 4>>, <<4, 3>>, <<-3, -4>>, <<0, 5>>, <<-4, 3>>, <<5, 0>>, <<6, 8>>>>

\* Row k of NoiseRows brought to n entries.
NoiseRow(k, n) ==
    IF n = 1 THEN <<NoiseRows[k][1] + NoiseRows[k][2]>>
    ELSE IF n = 2 THEN NoiseRows[k]
    ELSE NoiseRows[k] \o [x \in 1..(n - 2) |-> 0]

\* torch.randn(shape) on a generator that was set to seed and has produced
\* drawn values since: an opaque function of the two, a tensor of opt_C
\* channels of cells values.
GeneratorDraw(seed, drawn, cells) ==
    [c \in 1..opt_C |-> NoiseRow(((seed + 3 * drawn + 2 * c) % 7) + 1, cells)]

\* devices.randn(seed, shape): torch.manual_seed(seed), then torch.randn.
Randn(seed, cells) == GeneratorDraw(seed, 0, cells)

\* The generator after devices.randn(seed, shape).
RngAfterRandn(seed, cells) == <<seed, opt_C * cells>>

\* devices.randn_without_seed(shape): torch.randn on the generator as it is.
RandnWithoutSeed(g, cells) == GeneratorDraw(g[1], g[2], cells)

\* The generator after devices.randn_without_seed(shape).
RngAfterDraw(g, cells) == <<g[1], g[2] + opt_C * cells>>

\* A tensor entry that is not a number.
NaN == -999

Dot(a, b) == SumSeq([x \in 1..Len(a) |-> a[x] * b[x]])

\* torch.norm of a row (the rows of the model have integer norms).
Norm(a) ==
    LET sq == Dot(a, a)
    IN  CHOOSE k \in 0..sq : k * k = sq

\* (low_norm * high_norm).sum(1) for one channel, in hundredths.
Cos100(a, b) == (100 * Dot(a, b)) \div (Norm(a) * Norm(b))

\* dot.mean() > 0.9995
NearlyParallel(low, high) ==
    100 * SumSeq([c \in 1..Len(low) |-> Cos100(low[c], high[c])]) > 9995 * Len(low)

\* slerp, line 200: low * val + high * (1 - val)
SlerpLinear(val, low, high) ==
    [c \in 1..Len(low) |-> [x \in 1..Len(low[c]) |-> low[c][x] * val + high[c][x] * (1 - val)]]

\* slerp, lines 202-205, for val 0 or 1, where sin((1 - val) * omega) / so is
\* 1 - val and sin(val * omega) / so is val; in a channel whose rows are
\* parallel omega and so are 0 and both quotients are 0 / 0.
SlerpSpherical(val, low, high) ==
    [c \in 1..Len(low) |->
        LET parallel == Cos100(low[c], high[c]) = 100
        IN  [x \in 1..Len(low[c]) |->
                IF parallel THEN NaN ELSE (1 - val) * low[c][x] + val * high[c][x]]]

\* slerp(val, low, high), lines 194-205, for val 0 or 1
slerp(val, low, high) ==
    IF NearlyParallel(low, high)
    THEN SlerpLinear(val, low, high)
    ELSE SlerpSpherical(val, low, high)

\* noise_shape of line 222: the cells of the noise, seed_resize_from // 8 when
\* a resize is asked for.
NoiseShape(cells, seed_resize_from) ==
    IF seed_resize_from <= 0 THEN cells ELSE seed_resize_from \div 8

\* lines 239-251: the noise pasted, centred, into fresh noise of the target
\* shape.
PasteNoise(x, noise_t) ==
    LET d == (Len(x[1]) - Len(noise_t[1])) \div 2
        h == IF d >= 0 THEN Len(noise_t[1]) ELSE Len(noise_t[1]) + 2 * d
        ty == IF d < 0 THEN 0 ELSE d
        dy == Max(0 - d, 0)
    IN  [c \in 1..Len(x) |->
            [k \in 1..Len(x[c]) |->
                IF ty < k /\ k <= ty + h THEN noise_t[c][dy + k - ty] ELSE x[c][k]]]

\* The sub-seed of row i taken from the head of the list whatever i is.
SubseedOfFirst(subseeds, i) == IF Len(subseeds) = 0 THEN 0 ELSE subseeds[1]

\* The sub-seed of row i: subseeds[i], 0 beyond the end of the list (line 226).
SubseedOf(subseeds, i) == IF i > Len(subseeds) THEN 0 ELSE subseeds[i]

\* The number of noises the sampler asks for (p.sampler.number_of_needed_noises).
NeededNoises == 1

\* line 216 without its conditions on the seeds and the options.
WantsSamplerNoisesAlways(has_sampler, seeds, o) == has_sampler

\* line 216: the sampler's noises are generated too
WantsSamplerNoises(has_sampler, seeds, o) ==
    has_sampler /\ ((Len(seeds) > 1 /\ o.enable_batch_seeds) \/ o.eta_noise_seed_delta > 0)

\* One turn of the loop of lines 221-262 for row i, on the generator g:
\* the noise of the row, the noises drawn for the sampler, the generator left.
NoiseOfSeed(cells, seeds, subseeds, subseed_strength, seed_resize_from, wants, o, g, i) ==
    LET seed == seeds[i]
        ncells == NoiseShape(cells, seed_resize_from)
        plain == Randn(seed, ncells)
        blended == IF subseeds # None
                   THEN slerp(subseed_strength, plain, Randn(SubseedOf(subseeds, i), ncells))
                   ELSE plain
        pasted_noise == IF ncells # cells THEN PasteNoise(Randn(seed, cells), blended) ELSE blended
        g1 == IF ncells # cells THEN RngAfterRandn(seed, cells) ELSE RngAfterRandn(seed, ncells)
        g2 == IF wants /\ o.eta_noise_seed_delta > 0
              THEN <<seed + o.eta_noise_seed_delta, 0>> ELSE g1
        drawn == [j \in 1..NeededNoises |->
                     RandnWithoutSeed(<<g2[1], g2[2] + (j - 1) * opt_C * ncells>>, ncells)]
        g3 == <<g2[1], g2[2] + NeededNoises * opt_C * ncells>>
    IN  [noise |-> pasted_noise,
         sampler |-> IF wants THEN drawn ELSE <<>>,
         rng |-> IF wants THEN g3 ELSE g1]

\* Rows 1..i of the loop of lines 221-262, each on the generator the row
\* before it left.
RECURSIVE NoiseRowsUpTo(_, _, _, _, _, _, _, _, _)
NoiseRowsUpTo(cells, seeds, subseeds, subseed_strength, seed_resize_from, wants, o, g, i) ==
    IF i = 0 THEN <<>>
    ELSE LET before == NoiseRowsUpTo(cells, seeds, subseeds, subseed_strength,
                                     seed_resize_from, wants, o, g, i - 1)
         IN  Append(before,
                    NoiseOfSeed(cells, seeds, subseeds, subseed_strength, seed_resize_from,
                                wants, o, IF i = 1 THEN g ELSE before[i - 1].rng, i))

\* create_random_tensors (lines 208-268) called with a request that has a
\* sampler (has_sampler) or not, under options o, on generator g, the sampler
\* holding the noises sn: the tensor returned, the noises the sampler holds
\* afterwards and the generator left.
CreateRandomTensors(cells, seeds, subseeds, subseed_strength, seed_resize_from, has_sampler, o, g, sn) ==
    LET wants == WantsSamplerNoises(has_sampler, seeds, o)
        rows == NoiseRowsUpTo(cells, seeds, subseeds, subseed_strength, seed_resize_from,
                              wants, o, g, Len(seeds))
    IN  [x |-> [i \in 1..Len(seeds) |-> rows[i].noise],
         sampler_noises |->
             IF wants
             THEN [j \in 1..NeededNoises |-> [i \in 1..Len(seeds) |-> rows[i].sampler[j]]]
             ELSE sn,
         rng |-> IF Len(seeds) = 0 THEN g ELSE rows[Len(seeds)].rng]

\* create_random_tensors(shape, seeds) with no sub-seeds and no resize: the
\* tensor returned.
create_random_tensors(cells, seeds) ==
    CreateRandomTensors(cells, seeds, None, 0, 0, FALSE,
                        [enable_batch_seeds |-> TRUE, eta_noise_seed_delta |-> 0], <<1, 0>>, None).x

\* What sampler.sample_img2img may return for a batch of n latents.
SamplerOutputs(n, cells) ==
    {[i \in 1..n |-> [c \in 1..opt_C |-> [x \in 1..cells |-> ab[1] + ab[2] * (i + c + x)]]] :
        ab \in {<<-3, 0>>, <<-3, 2>>, <<7, 2>>}}

\* a * b + c * d on tensors of one shape.
MulAdd(a, b, c, d) ==
    [i \in 1..Len(a) |->
        [ch \in 1..Len(a[i]) |->
            [x \in 1..Len(a[i][ch]) |-> a[i][ch][x] * b[i][ch][x] + c[i][ch][x] * d[i][ch][x]]]]

\* __init__, lines 657-661, without the truncation to batch_size.
NormalizeMasksNoTruncate(image_masks, n) ==
    IF image_masks # None /\ Len(image_masks) > 0
    THEN IF Len(image_masks) < n
         THEN image_masks \o [j \in 1..(n - Len(image_masks)) |-> image_masks[Len(image_masks)]]
         ELSE image_masks
    ELSE image_masks

\* __init__, lines 657-661: the mask list brought to the number of images.
NormalizeMasks(image_masks, n) ==
    IF image_masks # None /\ Len(image_masks) > 0
    THEN LET extended == IF Len(image_masks) < n
                         THEN image_masks \o [j \in 1..(n - Len(image_masks)) |-> image_masks[Len(image_masks)]]
                         ELSE image_masks
         IN  SubSeq(extended, 1, Min(n, Len(extended)))
    ELSE image_masks

\* latmask of lines 772-775: 1 where the resized mask rounds to 1, else 0.
LatMask(init_mask, cells) ==
    LET r == PilResize(init_mask, cells)
    IN  [x \in 1..cells |-> IF 2 * r[x] > 255 THEN 1 ELSE 0]

\* np.tile(latmask[None], (4, 1, 1))
Tile(latmask) == [c \in 1..4 |-> latmask]

\* masks.append(1.0 - latmask) with the complement forgotten.
MaskOfLatMaskSame(latmask) == Tile(latmask)

\* masks.append(torch.asarray(1.0 - latmask)), line 778
MaskOfLatMask(latmask) == Tile([x \in 1..Len(latmask) |-> 1 - latmask[x]])

\* nmasks.append(torch.asarray(latmask)), line 779
NMaskOfLatMask(latmask) == Tile(latmask)

\* The masks arguments: None, or one to MaxMasks masks (an empty list makes
\* masks[0] of line 630 raise, and no object is constructed).
MaskArgs == {None} \cup UNION {[1..k -> MaskPool] : k \in 1..MaxMasks}

\* The number of iterations sample is called for.
MaxIter == 1

Cells == Width \div opt_f

\* __init__ (lines 624-661)
Construct ==
    /\ ipc = "idle"
    /\ \E n \in 1..MaxImages, ms \in MaskArgs, blur \in {0, 4}, fill \in 0..3,
          full \in BOOLEAN, pad \in {0, 2}, inv \in {0, 1}, rm \in {0, 3} :
          \* the mask parameters are read only when masks are given, and the
          \* padding only in full-resolution mode: elsewhere their defaults
          /\ ms = None => (blur = 4 /\ fill = 0 /\ full /\ inv = 0)
          /\ (ms = None \/ ~full) => pad = 0
          /\ masks' = ms
          /\ self' = [init_images |-> [j \in 1..n |-> ImageRow(j)],
                      resize_mode |-> rm,
                      init_latent |-> None,
                      image_masks |-> NormalizeMasks(ms, n),
                      masks_for_overlay |-> <<>>,
                      overlay_images |-> None,
                      paste_to |-> None,
                      mask_blur |-> blur,
                      inpainting_fill |-> fill,
                      inpaint_full_res |-> full,
                      inpaint_full_res_padding |-> pad,
                      inpainting_mask_invert |-> inv,
                      mask |-> None,
                      nmask |-> None,
                      batch_size |-> n,
                      iteration |-> 0]
    /\ ipc' = "constructed"
    /\ UNCHANGED <<crop_region, imgs, mask_regions, image_crops, sampler_out, samples, pasted>>
    /\ UNCHANGED output_widths
    /\ UNCHANGED cacheVars
    /\ UNCHANGED runVars
    /\ UNCHANGED noiseVars

\* init, lines 664-673
InitBegin ==
    /\ ipc = "constructed"
    /\ crop_region' = None
    /\ ipc' = IF self.image_masks # None THEN "masks" ELSE "images"
    /\ UNCHANGED <<masks, self, imgs, mask_regions, image_crops, sampler_out, samples, pasted>>
    /\ UNCHANGED output_widths
    /\ UNCHANGED cacheVars
    /\ UNCHANGED runVars
    /\ UNCHANGED noiseVars

\* image_mask after convert('L'), the optional invert and the optional blur
\* (lines 675-681).
PreparedMask(image_mask) ==
    LET inverted == IF self.inpainting_mask_invert # 0 THEN Invert(image_mask) ELSE image_mask
    IN  IF self.mask_blur > 0 THEN GaussianBlur(inverted) ELSE inverted

\* init, one turn of the loop over image_masks (lines 674-697)
InitMask ==
    /\ ipc = "masks"
    /\ Len(self.masks_for_overlay) < Len(self.image_masks)
    /\ LET i == Len(self.masks_for_overlay) + 1
           image_mask == PreparedMask(self.image_masks[i])
           region == expand_crop_region(
                         get_crop_region(image_mask, self.inpaint_full_res_padding),
                         Len(image_mask))
       IN  IF self.inpaint_full_res
           THEN /\ self' = [self EXCEPT
                              !.masks_for_overlay = Append(@, image_mask),
                              !.paste_to = <<region[1], region[2] - region[1]>>]
                /\ crop_region' = region
                /\ mask_regions' = Append(mask_regions, region)
           ELSE /\ self' = [self EXCEPT
                              !.masks_for_overlay =
                                  Append(@, ClipDouble(resize_image(image_mask, Width)))]
                /\ UNCHANGED <<crop_region, mask_regions>>
    /\ UNCHANGED <<masks, ipc, imgs, image_crops, sampler_out, samples, pasted>>
    /\ UNCHANGED output_widths
    /\ UNCHANGED cacheVars
    /\ UNCHANGED runVars
    /\ UNCHANGED noiseVars

\* init, the end of the loop over image_masks (line 699)
InitMasksEnd ==
    /\ ipc = "masks"
    /\ Len(self.masks_for_overlay) = Len(self.image_masks)
    /\ self' = [self EXCEPT !.overlay_images = <<>>]
    /\ ipc' = "images"
    /\ UNCHANGED <<masks, crop_region, imgs, mask_regions, image_crops, sampler_out, samples, pasted>>
    /\ UNCHANGED output_widths
    /\ UNCHANGED cacheVars
    /\ UNCHANGED runVars
    /\ UNCHANGED noiseVars

\* image_masked of lines 721-722: each pixel with the alpha the inverted
\* overlay mask gives it.
ImageMasked(image, overlay_mask) ==
    [x \in 1..Len(image) |-> <<image[x], 255 - overlay_mask[x]>>]

\* init, one turn of the loop over init_images (lines 708-741)
InitImage ==
    /\ ipc = "images"
    /\ Len(imgs) < Len(self.init_images)
    /\ LET i == Len(imgs) + 1
           flat == self.init_images[i]
           resized == IF crop_region = None /\ self.resize_mode # 3
                      THEN resize_image(flat, Width) ELSE flat
           cropped == IF crop_region # None
                      THEN resize_image(Crop(resized, crop_region), Width) ELSE resized
           filled == IF self.image_masks # None /\ self.inpainting_fill # 1
                     THEN Fill(cropped, self.image_masks[i]) ELSE cropped
       IN  /\ self' = IF self.image_masks # None
                      THEN [self EXCEPT !.overlay_images =
                                Append(@, ImageMasked(resized, self.masks_for_overlay[i]))]
                      ELSE self
           /\ image_crops' = IF crop_region # None
                             THEN Append(image_crops, crop_region) ELSE image_crops
           /\ imgs' = Append(imgs, filled)
    /\ UNCHANGED <<masks, ipc, crop_region, mask_regions, sampler_out, samples, pasted>>
    /\ UNCHANGED output_widths
    /\ UNCHANGED cacheVars
    /\ UNCHANGED runVars
    /\ UNCHANGED noiseVars

\* init, after the loop over init_images (lines 752-790)
InitEncode ==
    /\ ipc = "images"
    /\ Len(imgs) = Len(self.init_images)
    /\ LET encoded == [i \in 1..Len(imgs) |-> Encode(imgs[i])]
           mask == [i \in 1..Len(self.image_masks) |->
                       MaskOfLatMask(LatMask(self.image_masks[i], Cells))]
           nmask == [i \in 1..Len(self.image_masks) |->
                       NMaskOfLatMask(LatMask(self.image_masks[i], Cells))]
           noise == create_random_tensors(Cells, AllSeeds(Len(encoded)))
           zero == [i \in 1..Len(encoded) |-> [c \in 1..opt_C |-> [x \in 1..Cells |-> 0]]]
       IN  self' = IF self.image_masks # None
                   THEN [self EXCEPT
                           !.batch_size = Len(imgs),
                           !.mask = mask,
                           !.nmask = nmask,
                           !.init_latent =
                               IF self.inpainting_fill = 2
                               THEN MulAdd(encoded, mask, noise, nmask)
                               ELSE IF self.inpainting_fill = 3
                               THEN MulAdd(encoded, mask, zero, zero)
                               ELSE encoded]
                   ELSE [self EXCEPT !.batch_size = Len(imgs), !.init_latent = encoded]
    /\ ipc' = "ready"
    /\ UNCHANGED <<masks, crop_region, imgs, mask_regions, image_crops, sampler_out, samples, pasted>>
    /\ UNCHANGED output_widths
    /\ UNCHANGED cacheVars
    /\ UNCHANGED runVars
    /\ rng' = IF self.image_masks # None /\ self.inpainting_fill = 2
              THEN CreateRandomTensors(Cells, AllSeeds(Len(imgs)), None, 0, 0, FALSE,
                                       opts, rng, sampler_noises).rng
              ELSE rng
    /\ UNCHANGED <<sampler_noises, noise_call, slerp_call>>

\* self.mask applied twice where the recomposite uses nmask.
RecompositeMaskTwice(x, nmask, init_latent, mask) == MulAdd(x, mask, init_latent, mask)

\* samples * self.nmask + self.init_latent * self.mask (line 802)
Recomposite(x, nmask, init_latent, mask) == MulAdd(x, nmask, init_latent, mask)

\* sample (lines 792-807)
Sample ==
    /\ ipc = "ready"
    /\ self.iteration < MaxIter
    /\ \E out \in SamplerOutputs(self.batch_size, Cells) :
          /\ sampler_out' = out
          /\ samples' = IF self.mask # None
                        THEN Recomposite(out, self.nmask, self.init_latent, self.mask)
                        ELSE out
    /\ ipc' = "sampled"
    /\ pasted' = <<>>
    /\ output_widths' = <<>>
    /\ UNCHANGED <<masks, self, crop_region, imgs, mask_regions, image_crops>>
    /\ UNCHANGED cacheVars
    /\ UNCHANGED runVars
    /\ LET x == CreateRandomTensors(Cells, AllSeeds(self.batch_size), AllSubseeds(self.batch_size),
                                    0, 0, TRUE, opts, rng, sampler_noises)
       IN  /\ rng' = x.rng
           /\ sampler_noises' = x.sampler_noises
    /\ UNCHANGED <<noise_call, slerp_call>>

\* apply_overlay(image, p.paste_to, i, p.overlay_images) for the next image
\* of the batch (lines 64-81, called at line 545): where the image is pasted,
\* None when it is not pasted.
apply_overlay_loc(paste_loc, index, overlays) ==
    IF overlays = None \/ index > Len(overlays) THEN None ELSE paste_loc

\* apply_overlay leaving the image at the size it came with.
apply_overlay_width_kept(image_w, paste_loc, index, overlays) == image_w

\* apply_overlay (lines 64-81): the width of the image it returns. With a
\* paste_loc the image is pasted into Image.new('RGBA', (overlay.width,
\* overlay.height)) (line 72); otherwise it keeps its size.
apply_overlay_width(image_w, paste_loc, index, overlays) ==
    IF overlays = None \/ index > Len(overlays) THEN image_w
    ELSE IF paste_loc # None THEN Len(overlays[index])
    ELSE image_w

\* The width of a decoded sample: opt_f pixels for each latent cell, which is
\* the request's width (x_sample of line 520).
DecodedWidth == Cells * opt_f

Overlay ==
    /\ ipc = "sampled"
    /\ Len(pasted) < self.batch_size
    /\ pasted' = Append(pasted, apply_overlay_loc(self.paste_to, Len(pasted) + 1, self.overlay_images))
    /\ output_widths' = Append(output_widths,
                               apply_overlay_width(DecodedWidth, self.paste_to, Len(pasted) + 1,
                                                   self.overlay_images))
    /\ UNCHANGED <<masks, self, ipc, crop_region, imgs, mask_regions, image_crops, sampler_out, samples>>
    /\ UNCHANGED cacheVars
    /\ UNCHANGED runVars
    /\ UNCHANGED noiseVars

\* the end of an iteration of process_images_inner: on to the next sample
IterationEnd ==
    /\ ipc = "sampled"
    /\ Len(pasted) = self.batch_size
    /\ self' = [self EXCEPT !.iteration = @ + 1]
    /\ ipc' = "ready"
    /\ UNCHANGED <<masks, crop_region, imgs, mask_regions, image_crops, sampler_out, samples, pasted>>
    /\ UNCHANGED output_widths
    /\ UNCHANGED cacheVars
    /\ UNCHANGED runVars
    /\ UNCHANGED noiseVars

ImgInit == CacheIdle /\ ImgIdle /\ RunIdle /\ NoiseIdle

ImgNext ==
    \/ Construct
    \/ InitBegin
    \/ InitMask
    \/ InitMasksEnd
    \/ InitImage
    \/ InitEncode
    \/ Sample
    \/ Overlay
    \/ IterationEnd

SpecImg == ImgInit /\ [][ImgNext]_vars

\* The widths a source image may have: narrower than, as wide as and wider
\* than the request.
SourceWidths == {Width \div 2, Width, Width + Width \div 2}

\* A source image of width w.
SizedImageRow(w) == [x \in 1..w |-> (40 + 3 * x) % 256]

\* A mask of width w whose pixels a..b are white.
SizedMaskRow(w, a, b) == [x \in 1..w |-> IF a <= x /\ x <= b THEN 255 ELSE 0]

\* __init__ (lines 624-661) with one source image of any of SourceWidths and
\* one mask of that size, in full-resolution inpaint mode. inpainting_fill is
\* 1 (original): masking.fill is not called.
ConstructSized ==
    /\ ipc = "idle"
    /\ \E w \in SourceWidths, left \in BOOLEAN, blur \in {0, 4}, pad \in {0, 2},
          inv \in {0, 1}, rm \in {0, 3} :
          LET ms == <<IF left THEN SizedMaskRow(w, 1, w \div 2)
                      ELSE SizedMaskRow(w, w \div 2 + 1, w)>>
          IN  /\ masks' = ms
              /\ self' = [init_images |-> <<SizedImageRow(w)>>,
                          resize_mode |-> rm,
                          init_latent |-> None,
                          image_masks |-> NormalizeMasks(ms, 1),
                          masks_for_overlay |-> <<>>,
                          overlay_images |-> None,
                          paste_to |-> None,
                          mask_blur |-> blur,
                          inpainting_fill |-> 1,
                          inpaint_full_res |-> TRUE,
                          inpaint_full_res_padding |-> pad,
                          inpainting_mask_invert |-> inv,
                          mask |-> None,
                          nmask |-> None,
                          batch_size |-> 1,
                          iteration |-> 0]
    /\ ipc' = "constructed"
    /\ UNCHANGED <<crop_region, imgs, mask_regions, image_crops, sampler_out, samples, pasted>>
    /\ UNCHANGED output_widths
    /\ UNCHANGED cacheVars
    /\ UNCHANGED runVars
    /\ UNCHANGED noiseVars

SizeNext ==
    \/ ConstructSized
    \/ InitBegin
    \/ InitMask
    \/ InitMasksEnd
    \/ InitImage
    \/ InitEncode
    \/ Sample
    \/ Overlay
    \/ IterationEnd

\* Full-resolution inpainting of one image with one mask, for source images
\* of several sizes.
SpecSize == ImgInit /\ [][SizeNext]_vars

PasteLocOf(region) == <<region[1], region[2] - region[1]>>

\* every cell index of a batch of latents
CellsOf(t) == {<<i, c, x>> : i \in 1..Len(t), c \in 1..opt_C, x \in 1..Cells}

\* C7: once the object is constructed with k >= 1 masks and m >= 1 images the
\* mask list has m entries, entry i being supplied mask i for i <= k and the
\* last supplied mask for i > k (so the first m masks when k > m), and no step
\* of init or sample changes it.
C7_MaskListLength ==
    (ipc # "idle" /\ masks # None) =>
        LET k == Len(masks)
            m == Len(self.init_images)
        IN  /\ Len(self.image_masks) = m
            /\ \A i \in 1..m : self.image_masks[i] = masks[Min(i, k)]

\* One mask for two images, after init and sample: the mask is there twice.
C7_Witness ==
    /\ ipc = "sampled"
    /\ masks # None /\ Len(masks) = 1
    /\ Len(self.init_images) = 2
    /\ self.image_masks = <<masks[1], masks[1]>>

\* C8: in full-resolution inpaint mode image i is cropped with the crop region
\* computed from mask i, and output i is pasted back at that region.
C8_OwnCropRegion ==
    (self # None /\ self.image_masks # None /\ self.inpaint_full_res) =>
        /\ \A i \in 1..Len(image_crops) : image_crops[i] = mask_regions[i]
        /\ \A i \in 1..Len(pasted) : pasted[i] = PasteLocOf(mask_regions[i])

\* C9: mask and nmask are 0 or 1 at every cell, sum to 1 and are the same in
\* every channel; the latent sample returns is the initial latent where mask
\* is 1 and what the sampler returned where nmask is 1.
C9_MaskedRecomposite ==
    /\ (self # None /\ self.mask # None) =>
          \A q \in CellsOf(self.mask) :
              /\ self.mask[q[1]][q[2]][q[3]] \in {0, 1}
              /\ self.nmask[q[1]][q[2]][q[3]] \in {0, 1}
              /\ self.mask[q[1]][q[2]][q[3]] + self.nmask[q[1]][q[2]][q[3]] = 1
              /\ self.mask[q[1]][q[2]][q[3]] = self.mask[q[1]][1][q[3]]
              /\ self.nmask[q[1]][q[2]][q[3]] = self.nmask[q[1]][1][q[3]]
    /\ (ipc = "sampled" /\ self.mask # None) =>
          \A q \in CellsOf(samples) :
              /\ self.mask[q[1]][q[2]][q[3]] = 1 =>
                    samples[q[1]][q[2]][q[3]] = self.init_latent[q[1]][q[2]][q[3]]
              /\ self.nmask[q[1]][q[2]][q[3]] = 1 =>
                    samples[q[1]][q[2]][q[3]] = sampler_out[q[1]][q[2]][q[3]]

\* A sampled batch whose mask has cells of both kinds, where the sampler moved
\* a cell the mask protects.
C9_Witness ==
    /\ ipc = "sampled"
    /\ self.mask # None
    /\ \E q \in CellsOf(samples) :
          /\ self.mask[q[1]][q[2]][q[3]] = 1
          /\ sampler_out[q[1]][q[2]][q[3]] # self.init_latent[q[1]][q[2]][q[3]]
    /\ \E q \in CellsOf(samples) :
          /\ self.nmask[q[1]][q[2]][q[3]] = 1
          /\ sampler_out[q[1]][q[2]][q[3]] # self.init_latent[q[1]][q[2]][q[3]]

\* C10: with the mask, nmask and init_latent that init set, the recomposite R
\* of sample satisfies R(R(x)) = R(x) for every latent x the sampler returns.
C10_RecompositeIdempotent ==
    (ipc \in {"ready", "sampled"} /\ self.mask # None) =>
        \A x \in SamplerOutputs(self.batch_size, Cells) :
            LET once == Recomposite(x, self.nmask, self.init_latent, self.mask)
            IN  Recomposite(once, self.nmask, self.init_latent, self.mask) = once

\* sample has recomposited a batch in which the sampler changed a protected
\* cell, so that the recomposite did change its argument.
C10_Witness ==
    /\ ipc = "sampled"
    /\ self.mask # None
    /\ samples # sampler_out
    /\ Recomposite(samples, self.nmask, self.init_latent, self.mask) = samples

(***************************************************************************)
(* process_images (lines 326-355) and process_images_inner (358-606).      *)
(***************************************************************************)
MaxNIter == 2
MaxBatch == 2
MaxList == 2

KeySet == {OverrideKeys[j] : j \in 1..Len(OverrideKeys)}

\* The values a request overrides an option with.
OverrideValues ==
    [sd_model_checkpoint |-> {"ckpt_B", "ckpt_missing"},
     sd_vae |-> {"vae_B", "vae_missing"},
     CLIP_stop_at_last_layers |-> {"2"}]

\* A dictionary over the option keys is a function on all of them, Absent at
\* the keys it does not hold.
Absent == "<absent>"

Keys(d) == {k \in KeySet : d[k] # Absent}

EmptyDict == [k \in KeySet |-> Absent]

\* Every override_settings dictionary over those keys and values.
OverrideSettings ==
    {f \in [KeySet -> {Absent, "ckpt_B", "ckpt_missing", "vae_B", "vae_missing", "2"}] :
        \A k \in KeySet : f[k] \in OverrideValues[k] \cup {Absent}}

\* A lookup that finds every name.
CheckpointNotFoundNever(d) == FALSE

\* checkpoint_alisases.get(override_settings.get('sd_model_checkpoint')) is None
CheckpointNotFound(d) == d["sd_model_checkpoint"] \notin checkpoint_alisases

\* dict.pop(key, None)
DictPop(d, k) == [d EXCEPT ![k] = Absent]

\* setattr(opts, k, v)
SetOpt(o, k, v) == [o EXCEPT ![k] = v]

\* The keys of a dictionary in the order the loops visit them.
KeysInOrder(d) == SelectSeq(OverrideKeys, LAMBDA k : k \in Keys(d))

\* A prompt, negative prompt, seed or sub-seed field is a scalar or a list: a
\* scalar is held as the one entry of v.
Scalar(x) == [kind |-> "scalar", v |-> <<x>>]
\* A seed or sub-seed given as None, and one given as the empty string.
NoneSeed == [kind |-> "none", v |-> <<>>]
EmptyStringSeed == [kind |-> "empty", v |-> <<>>]
List(v) == [kind |-> "list", v |-> v]
ScalarValue(f) == f.v[1]

\* A request: the fields of p that process_images reads.
Request(ov, restore, prompt, negative_prompt, seed, subseed, strength, b, n) ==
    [override_settings |-> ov,
     override_settings_restore_afterwards |-> restore,
     prompt |-> prompt,
     negative_prompt |-> negative_prompt,
     seed |-> seed,
     subseed |-> subseed,
     subseed_strength |-> strength,
     batch_size |-> b,
     n_iter |-> n,
     steps |-> 20,
     do_not_save_grid |-> FALSE,
     do_not_save_samples |-> FALSE,
     restore_faces |-> FALSE,
     color_corrections |-> None,
     has_masks_for_overlay |-> FALSE,
     scripts |-> FALSE,
     initial_noise_multiplier |-> 100,
     extra_generation_params |-> {},
     all_prompts |-> None,
     all_negative_prompts |-> None,
     all_seeds |-> None,
     all_subseeds |-> None,
     iteration |-> 0]

\* The state in which process_images is called with request r under options o.
RunReady(r, o) ==
    /\ opts = o
    /\ opts0 = o
    /\ loaded = [checkpoint |-> o.sd_model_checkpoint, vae |-> o.sd_vae]
    /\ p = r
    /\ state = [interrupted |-> FALSE, skipped |-> FALSE, job_no |-> 0, job_count |-> -1]
    /\ pc = "call"
    /\ stored_opts = None
    /\ loc = [todo |-> <<>>, n |-> 0, prompts |-> <<>>, negative_prompts |-> <<>>,
              seeds |-> <<>>, subseeds |-> <<>>, x_samples_ddim |-> <<>>, i |-> 0,
              index_of_first_image |-> 0]
    /\ output_images = <<>>
    /\ infotexts = <<>>
    /\ res = None
    /\ exc = NoException
    /\ hist = NoHist

\* process_images, line 327
StoreOpts ==
    /\ pc = "call"
    /\ stored_opts' = [k \in KeySet |-> IF k \in Keys(p.override_settings) THEN opts[k] ELSE Absent]
    /\ pc' = "check_checkpoint"
    /\ UNCHANGED <<opts, opts0, loaded, p, state, loc, output_images, infotexts, res, exc, hist>>
    /\ UNCHANGED <<cacheVars, imgVars>>
    /\ UNCHANGED noiseVars

\* process_images, lines 331-333
CheckCheckpoint ==
    /\ pc = "check_checkpoint"
    /\ IF CheckpointNotFound(p.override_settings)
       THEN /\ p' = [p EXCEPT !.override_settings = DictPop(@, "sd_model_checkpoint")]
            /\ loaded' = [loaded EXCEPT !.checkpoint = opts.sd_model_checkpoint]
       ELSE UNCHANGED <<p, loaded>>
    /\ loc' = [loc EXCEPT !.todo = KeysInOrder(p'.override_settings)]
    /\ hist' = [hist EXCEPT !.dropped =
                     p.override_settings["sd_model_checkpoint"] \notin checkpoint_alisases \cup {Absent}]
    /\ pc' = "apply"
    /\ UNCHANGED <<opts, opts0, state, stored_opts, output_images, infotexts, res, exc>>
    /\ UNCHANGED <<cacheVars, imgVars>>
    /\ UNCHANGED noiseVars

\* setattr(opts, k, v) of line 336: the options after the override of k
OptsAfterOverride(o, k, v) == SetOpt(o, k, v)

\* process_images, one turn of the loop of lines 335-342; a VAE that cannot
\* be found leaves the loaded VAE as it is
ApplyOverride ==
    /\ pc = "apply"
    /\ loc.todo # <<>>
    /\ LET k == Head(loc.todo)
           v == p.override_settings[k]
       IN  /\ opts' = OptsAfterOverride(opts, k, v)
           /\ loaded' = IF k = "sd_model_checkpoint" THEN [loaded EXCEPT !.checkpoint = v]
                        ELSE IF k = "sd_vae" /\ v \in vae_dict THEN [loaded EXCEPT !.vae = v]
                        ELSE loaded
    /\ loc' = [loc EXCEPT !.todo = Tail(@)]
    /\ UNCHANGED <<opts0, p, state, pc, stored_opts, output_images, infotexts, res, exc, hist>>
    /\ UNCHANGED <<cacheVars, imgVars>>
    /\ UNCHANGED noiseVars

\* process_images, line 344: the call of process_images_inner
EnterInner ==
    /\ pc = "apply"
    /\ loc.todo = <<>>
    /\ pc' = "inner"
    /\ UNCHANGED <<opts, opts0, loaded, p, state, stored_opts, loc, output_images, infotexts, res, exc, hist>>
    /\ UNCHANGED <<cacheVars, imgVars>>
    /\ UNCHANGED noiseVars

\* The finally block restoring only after a normal return.
RestoreOptsUnlessRaised(o, stored, restore, e) ==
    IF restore /\ e = NoException THEN [k \in DOMAIN o |-> IF k \in KeySet /\ k \in Keys(stored) THEN stored[k] ELSE o[k]]
    ELSE o

\* process_images, lines 348-350: the options after the finally block.
RestoreOpts(o, stored, restore, e) ==
    IF restore THEN [k \in DOMAIN o |-> IF k \in KeySet /\ k \in Keys(stored) THEN stored[k] ELSE o[k]]
    ELSE o

\* process_images, lines 346-355: the finally block, then return or re-raise
Finally ==
    /\ pc = "finally"
    /\ opts' = RestoreOpts(opts, stored_opts, p.override_settings_restore_afterwards, exc)
    /\ loaded' = IF p.override_settings_restore_afterwards /\ "sd_vae" \in Keys(stored_opts)
                 THEN [loaded EXCEPT !.vae = stored_opts["sd_vae"]]
                 ELSE loaded
    /\ pc' = IF exc = NoException THEN "returned" ELSE "raised"
    /\ UNCHANGED <<opts0, p, state, stored_opts, loc, output_images, infotexts, res, exc, hist>>
    /\ UNCHANGED <<cacheVars, imgVars>>
    /\ UNCHANGED noiseVars

\* shared.prompt_styles.apply_styles_to_prompt(x, p.styles)
apply_styles_to_prompt(x) == <<x, "styles">>

\* shared.prompt_styles.apply_negative_styles_to_prompt(x, p.styles)
apply_negative_styles_to_prompt(x) == <<x, "negative styles">>

\* What random.randrange(4294967294) may return: values from 0 up; of that
\* range the model draws its lowest value and a large one that the integers of
\* the model checker hold.
RandomSeeds == {0, 2147480000}

\* A get_fixed_seed that replaces None and '' but keeps -1.
get_fixed_seed_keeps_minus_one(seed) ==
    IF seed.kind \in {"none", "empty"}
    THEN {Scalar(r) : r \in RandomSeeds}
    ELSE {seed}

\* get_fixed_seed(seed) (lines 278-282): the values it may return.
get_fixed_seed(seed) ==
    IF seed.kind \in {"none", "empty"} \/ (seed.kind = "scalar" /\ ScalarValue(seed) = -1)
    THEN {Scalar(r) : r \in RandomSeeds}
    ELSE {seed}

Repeat(k, x) == [j \in 1..k |-> x]

\* lines 376-379
AllPrompts(r) ==
    IF r.prompt.kind = "list"
    THEN [j \in 1..Len(r.prompt.v) |-> apply_styles_to_prompt(r.prompt.v[j])]
    ELSE Repeat(r.batch_size * r.n_iter, apply_styles_to_prompt(ScalarValue(r.prompt)))

\* lines 381-384
AllNegativePrompts(r) ==
    IF r.negative_prompt.kind = "list"
    THEN [j \in 1..Len(r.negative_prompt.v) |-> apply_negative_styles_to_prompt(r.negative_prompt.v[j])]
    ELSE Repeat(r.batch_size * r.n_iter, apply_negative_styles_to_prompt(ScalarValue(r.negative_prompt)))

\* One seed for every image, whatever the sub-seed strength.
AllSeedsOfOneSeed(r, seed, all_prompts) ==
    IF seed.kind = "list" THEN seed.v
    ELSE [j \in 1..Len(all_prompts) |-> ScalarValue(seed)]

\* lines 386-389
AllSeedsOf(r, seed, all_prompts) ==
    IF seed.kind = "list" THEN seed.v
    ELSE [j \in 1..Len(all_prompts) |->
             ScalarValue(seed) + (IF r.subseed_strength = 0 THEN j - 1 ELSE 0)]

\* lines 391-394
AllSubseedsOf(subseed, all_prompts) ==
    IF subseed.kind = "list" THEN subseed.v
    ELSE [j \in 1..Len(all_prompts) |-> ScalarValue(subseed) + (j - 1)]

\* Python's s[a:b] on a list, a and b counted from 0
Slice(s, a, b) == SubSeq(s, Min(a, Len(s)) + 1, Min(b, Len(s)))

\* An exception leaves process_images_inner: on to the finally block.
Raise(e) ==
    /\ exc' = e
    /\ pc' = "finally"

\* if p.scripts is not None: p.scripts.<name>(p, ...): the call, as an entry
\* <<name, batch number, image>> of the log of callbacks; -1 where the
\* callback has no batch number or no image.
ScriptCall(r, name, n, i) == IF r.scripts THEN <<<<name, n, i>>>> ELSE <<>>

\* process_images_inner, lines 361-409: the assertions, the seeds, the
\* expansion of prompts and seeds, scripts.process, the empty cache
InnerBegin ==
    /\ pc = "inner"
    /\ IF p.prompt.kind = "list" /\ Len(p.prompt.v) = 0
       THEN /\ Raise("AssertionError")
            /\ UNCHANGED <<p, cached_uc, cached_c, hist>>
       ELSE /\ \E seed \in get_fixed_seed(p.seed), subseed \in get_fixed_seed(p.subseed) :
                 LET all_prompts == AllPrompts(p)
                 IN  p' = [p EXCEPT
                             !.all_prompts = all_prompts,
                             !.all_negative_prompts = AllNegativePrompts(p),
                             !.all_seeds = AllSeedsOf(p, seed, all_prompts),
                             !.all_subseeds = AllSubseedsOf(subseed, all_prompts)]
            /\ cached_uc' = NewCache
            /\ cached_c' = NewCache
            /\ hist' = [hist EXCEPT !.callbacks = @ \o ScriptCall(p, "process", -1, -1)]
            /\ pc' = "init"
            /\ UNCHANGED exc
    /\ UNCHANGED <<opts, opts0, loaded, state, stored_opts, loc, output_images, infotexts, res>>
    /\ UNCHANGED <<ncompute, calls, imgVars>>
    /\ UNCHANGED noiseVars

\* process_images_inner, lines 431-442: p.init and the job count
InnerInit ==
    /\ pc = "init"
    /\ state' = IF state.job_count = -1 THEN [state EXCEPT !.job_count = p.n_iter] ELSE state
    /\ loc' = [loc EXCEPT !.n = 0]
    /\ pc' = "loop"
    /\ UNCHANGED <<opts, opts0, loaded, p, stored_opts, output_images, infotexts, res, exc, hist>>
    /\ UNCHANGED <<cacheVars, imgVars>>
    /\ UNCHANGED noiseVars

\* The boundary check that never breaks.
BreakOnInterruptNever(st) == FALSE

\* if state.interrupted: break (lines 449-450)
BreakOnInterrupt(st) == st.interrupted

\* process_images_inner, lines 443-450: the head of the loop over n
LoopHead ==
    /\ pc = "loop"
    /\ IF loc.n >= p.n_iter
       THEN /\ pc' = "after_loop"
            /\ hist' = [hist EXCEPT !.stop = "complete"]
            /\ UNCHANGED <<p, state>>
       ELSE /\ p' = [p EXCEPT !.iteration = loc.n]
            /\ state' = [state EXCEPT !.skipped = FALSE]
            /\ IF BreakOnInterrupt(state)
               THEN /\ pc' = "after_loop"
                    /\ hist' = [hist EXCEPT !.stop = "interrupted",
                                            !.seen_at = IF state.interrupted THEN loc.n ELSE @]
               ELSE /\ pc' = "slice"
                    /\ hist' = [hist EXCEPT !.checked = @ \cup {loc.n},
                                            !.seen_at = IF state.interrupted THEN loc.n ELSE @]
    /\ UNCHANGED <<opts, opts0, loaded, stored_opts, loc, output_images, infotexts, res, exc>>
    /\ UNCHANGED <<cacheVars, imgVars>>
    /\ UNCHANGED noiseVars

\* The test of the empty batch that never breaks.
BreakOnEmptyNever(prompts) == FALSE

\* if len(prompts) == 0: break (lines 460-461)
BreakOnEmpty(prompts) == Len(prompts) = 0

\* create_infotext raises IndexError (lines 291-321) when index is beyond the
\* end of a list it reads.
InfotextIndexError(r, index) ==
    \/ index >= Len(r.all_seeds)
    \/ (r.subseed_strength # 0 /\ index >= Len(r.all_subseeds))
    \/ index >= Len(r.all_negative_prompts)
    \/ index >= Len(r.all_prompts)

\* An infotext whose index leaves the batch size out.
infotext_without_batch_size(r, iteration, position_in_batch) ==
    LET index == position_in_batch + iteration
    IN  <<"infotext", index, r.all_prompts[index + 1], r.all_seeds[index + 1],
          r.extra_generation_params>>

\* infotext(iteration, position_in_batch) (lines 396-397, 290-323): the text
\* names the prompt and the seed at index and the extra generation
\* parameters of the request as they are when it is made.
infotext(r, iteration, position_in_batch) ==
    LET index == position_in_batch + iteration * r.batch_size
    IN  <<"infotext", index, r.all_prompts[index + 1], r.all_seeds[index + 1],
          r.extra_generation_params>>

\* The callbacks of lines 457-470 with process_batch called before
\* before_process_batch.
SliceCallbacksSwapped(r, n, empty) ==
    (IF empty THEN <<>> ELSE ScriptCall(r, "process_batch", n, -1))
    \o ScriptCall(r, "before_process_batch", n, -1)

\* scripts.before_process_batch (lines 457-458), called before the test of
\* the empty batch, and scripts.process_batch (lines 469-470), called after it
SliceCallbacks(r, n, empty) ==
    ScriptCall(r, "before_process_batch", n, -1)
    \o (IF empty THEN <<>> ELSE ScriptCall(r, "process_batch", n, -1))

\* Processed(p, [], p.seed, "") of line 478: int(self.seed) of line 145 raises
\* ValueError on the empty string
ParamsTxtValueError(r) == r.seed.kind = "empty"

\* process_images_inner, lines 452-479: the slices of the batch, the empty
\* batch, the extra networks, the callbacks, params.txt
SliceBatch ==
    /\ pc = "slice"
    /\ LET a == loc.n * p.batch_size
           b == (loc.n + 1) * p.batch_size
           prompts == Slice(p.all_prompts, a, b)
           called == [hist EXCEPT !.callbacks = @ \o SliceCallbacks(p, loc.n, BreakOnEmpty(prompts))]
       IN  /\ loc' = [loc EXCEPT !.prompts = prompts,
                                 !.negative_prompts = Slice(p.all_negative_prompts, a, b),
                                 !.seeds = Slice(p.all_seeds, a, b),
                                 !.subseeds = Slice(p.all_subseeds, a, b)]
           /\ IF BreakOnEmpty(prompts)
              THEN /\ pc' = "after_loop"
                   /\ hist' = [called EXCEPT !.stop = "empty", !.empty_at = loc.n]
                   /\ UNCHANGED exc
              ELSE IF loc.n = 0 /\ ParamsTxtValueError(p)
              THEN /\ Raise("ValueError")
                   /\ hist' = called
              ELSE IF loc.n = 0 /\ InfotextIndexError(p, 0)
              THEN /\ Raise("IndexError")
                   /\ hist' = called
              ELSE /\ pc' = "cond_uc"
                   /\ hist' = [called EXCEPT
                                 !.empty_at = IF Len(prompts) = 0 THEN loc.n ELSE @,
                                 !.nonempty = IF Len(prompts) = 0 THEN @ ELSE @ \cup {loc.n},
                                 !.params_txt = IF loc.n = 0 THEN infotext(p, 0, 0) ELSE @]
                   /\ UNCHANGED exc
    /\ UNCHANGED <<opts, opts0, loaded, p, state, stored_opts, output_images, infotexts, res>>
    /\ UNCHANGED <<cacheVars, imgVars>>
    /\ UNCHANGED noiseVars

\* p.steps * step_multiplier (lines 481-486), step_multiplier being 1
CondSteps == p.steps

\* process_images_inner, line 487
CondUc ==
    /\ pc = "cond_uc"
    /\ QueryUc(loc.negative_prompts, CondSteps)
    /\ pc' = "cond_c"
    /\ UNCHANGED <<opts, opts0, loaded, p, state, stored_opts, loc, output_images, infotexts, res, exc>>
    /\ hist' = [hist EXCEPT !.cond = @ \cup {loc.n}]
    /\ UNCHANGED imgVars
    /\ UNCHANGED noiseVars

\* process_images_inner, line 488
CondC ==
    /\ pc = "cond_c"
    /\ QueryC(loc.prompts, CondSteps)
    /\ pc' = "sample"
    /\ UNCHANGED <<opts, opts0, loaded, p, state, stored_opts, loc, output_images, infotexts, res, exc>>
    /\ hist' = [hist EXCEPT !.cond = @ \cup {loc.n}]
    /\ UNCHANGED imgVars
    /\ UNCHANGED noiseVars

\* A sample step that gives up when the interruption flag is set.
AfterSampleStopping(st) == IF st.interrupted THEN "after_loop" ELSE "decode"

\* Where process_images_inner goes after p.sample returned (lines 498-500).
AfterSample(st) == "decode"

\* sample with the entry made whatever the multiplier is.
ExtraParamsAlways(r) == r.extra_generation_params \cup {"Noise multiplier"}

\* sample, lines 795-796: the "Noise multiplier" entry of
\* extra_generation_params (the multiplier is held in hundredths)
ExtraParamsAfterSample(r) ==
    IF r.initial_noise_multiplier # 100
    THEN r.extra_generation_params \cup {"Noise multiplier"}
    ELSE r.extra_generation_params

\* process_images_inner, lines 494-498: p.sample, one latent for each seed of
\* the batch; create_random_tensors stacks an empty list when there is none.
\* sample enters the noise multiplier in p.extra_generation_params.
SampleBatch ==
    /\ pc = "sample"
    /\ IF Len(loc.seeds) = 0
       THEN /\ Raise("RuntimeError")
            /\ UNCHANGED <<loc, hist>>
            /\ UNCHANGED p
       ELSE /\ loc' = [loc EXCEPT !.x_samples_ddim =
                          [j \in 1..Len(loc.seeds) |-> <<"latent", loc.n, j - 1>>]]
            /\ p' = [p EXCEPT !.extra_generation_params = ExtraParamsAfterSample(p)]
            /\ hist' = [hist EXCEPT
                          !.sampled = @ \cup {loc.n},
                          !.sampled_with = @ \cup
                              {<<loc.n, j - 1, loc.seeds[j],
                                 IF j <= Len(loc.prompts) THEN loc.prompts[j] ELSE None>> :
                                  j \in 1..Len(loc.seeds)}]
            /\ pc' = AfterSample(state)
            /\ UNCHANGED exc
    /\ UNCHANGED <<opts, opts0, loaded, state, stored_opts, output_images, infotexts, res>>
    /\ UNCHANGED <<cacheVars, imgVars>>
    /\ UNCHANGED noiseVars

\* A NaN test that lets every image through.
TestForNansNever(nan) == FALSE

\* devices.test_for_nans(x, "vae") (lines 501-502) raises when a decoded
\* image holds a NaN.
TestForNans(nan) == nan

\* process_images_inner, lines 500-515: decode_first_stage of every latent and
\* devices.test_for_nans, which raises when a decoded image holds a NaN
Decode ==
    /\ pc = "decode"
    /\ \E nan \in BOOLEAN :
          IF TestForNans(nan)
          THEN /\ Raise("NansException")
               /\ hist' = [hist EXCEPT !.nan_at = loc.n]
               /\ UNCHANGED loc
          ELSE /\ loc' = [loc EXCEPT
                            !.x_samples_ddim =
                                [j \in 1..Len(@) |-> <<"image", loc.n, j - 1>>],
                            !.i = 0]
               /\ hist' = [hist EXCEPT !.decoded = @ \cup {loc.n},
                                       !.nan_at = IF nan THEN loc.n ELSE @,
                                       !.callbacks = @ \o ScriptCall(p, "postprocess_batch", loc.n, -1)]
               /\ pc' = "post"
               /\ UNCHANGED exc
    /\ UNCHANGED <<opts, opts0, loaded, p, state, stored_opts, output_images, infotexts, res>>
    /\ UNCHANGED <<cacheVars, imgVars>>
    /\ UNCHANGED noiseVars

\* Mask outputs appended whatever return_mask and return_mask_composite are.
MaskOutputsAlways(r, o, n, i) ==
    IF r.has_masks_for_overlay
    THEN <<<<"mask", n, i>>, <<"mask_composite", n, i>>>>
    ELSE <<>>

\* lines 556-570: the mask outputs appended after an image
MaskOutputs(r, o, n, i) ==
    IF r.has_masks_for_overlay
    THEN (IF o.return_mask THEN <<<<"mask", n, i>>>> ELSE <<>>)
         \o (IF o.return_mask_composite THEN <<<<"mask_composite", n, i>>>> ELSE <<>>)
    ELSE <<>>

\* lines 539-545 with the overlay composited before the color correction
ColorThenOverlaySwapped(r, o, i) ==
    <<"apply_overlay">>
    \o (IF r.color_corrections # None /\ i < Len(r.color_corrections)
        THEN (IF o.save /\ ~r.do_not_save_samples /\ o.save_images_before_color_correction
              THEN <<"save_before_color_correction">> ELSE <<>>)
             \o <<"apply_color_correction">>
        ELSE <<>>)

\* lines 539-545: the color correction, with its snapshot save, and then
\* apply_overlay
ColorThenOverlay(r, o, i) ==
    (IF r.color_corrections # None /\ i < Len(r.color_corrections)
     THEN (IF o.save /\ ~r.do_not_save_samples /\ o.save_images_before_color_correction
           THEN <<"save_before_color_correction">> ELSE <<>>)
          \o <<"apply_color_correction">>
     ELSE <<>>)
    \o <<"apply_overlay">>

\* lines 556-570: the saves and appends of the mask and the mask composite
MaskSteps(r, o) ==
    IF r.has_masks_for_overlay
       /\ (o.save_mask \/ o.save_mask_composite \/ o.return_mask \/ o.return_mask_composite)
    THEN (IF o.save_mask THEN <<"save_mask">> ELSE <<>>)
         \o (IF o.save_mask_composite THEN <<"save_mask_composite">> ELSE <<>>)
         \o (IF o.return_mask THEN <<"append_mask">> ELSE <<>>)
         \o (IF o.return_mask_composite THEN <<"append_mask_composite">> ELSE <<>>)
    ELSE <<>>

\* lines 517-570: the steps taken on image i of a batch, in the order the
\* loop body takes them
PostSteps(r, o, i) ==
    (IF r.restore_faces
     THEN (IF o.save /\ ~r.do_not_save_samples /\ o.save_images_before_face_restoration
           THEN <<"save_before_face_restoration">> ELSE <<>>)
          \o <<"restore_faces">>
     ELSE <<>>)
    \o (IF r.scripts THEN <<"postprocess_image">> ELSE <<>>)
    \o ColorThenOverlay(r, o, i)
    \o (IF o.samples_save /\ ~r.do_not_save_samples THEN <<"save_image">> ELSE <<>>)
    \o <<"infotext", "append_image">>
    \o MaskSteps(r, o)

\* The steps that call infotext(n, i) (lines 525, 542, 548, 550, 561, 564).
InfotextCallers ==
    {"save_before_face_restoration", "save_before_color_correction", "save_image",
     "infotext", "save_mask", "save_mask_composite"}

\* The steps taken before the first call of infotext(n, i).
RECURSIVE StepsBeforeInfotext(_)
StepsBeforeInfotext(steps) ==
    IF steps = <<>> \/ Head(steps) \in InfotextCallers THEN <<>>
    ELSE <<Head(steps)>> \o StepsBeforeInfotext(Tail(steps))

\* The steps of image i of iteration n, as entries of the log.
LogSteps(n, i, steps) == [k \in 1..Len(steps) |-> <<n, i, steps[k]>>]

\* scripts.postprocess_image (lines 534-537), when the steps taken reach it
ImageCallbacks(r, n, i, steps) ==
    IF \E k \in 1..Len(steps) : steps[k] = "postprocess_image"
    THEN ScriptCall(r, "postprocess_image", n, i) ELSE <<>>

\* process_images_inner, one turn of the loop of lines 517-570
PostImage ==
    /\ pc = "post"
    /\ loc.i < Len(loc.x_samples_ddim)
    /\ IF InfotextIndexError(p, loc.i + loc.n * p.batch_size)
       THEN /\ Raise("IndexError")
            /\ LET taken == StepsBeforeInfotext(PostSteps(p, opts, loc.i))
               IN  hist' = [hist EXCEPT
                              !.steps = @ \o LogSteps(loc.n, loc.i, taken),
                              !.callbacks = @ \o ImageCallbacks(p, loc.n, loc.i, taken)]
            /\ UNCHANGED <<loc, infotexts, output_images>>
       ELSE /\ infotexts' = Append(infotexts, infotext(p, loc.n, loc.i))
            /\ output_images' = Append(output_images, loc.x_samples_ddim[loc.i + 1])
                                  \o MaskOutputs(p, opts, loc.n, loc.i)
            /\ LET taken == PostSteps(p, opts, loc.i)
               IN  hist' = [hist EXCEPT
                              !.posted = @ \cup {<<loc.n, loc.i>>},
                              !.steps = @ \o LogSteps(loc.n, loc.i, taken),
                              !.callbacks = @ \o ImageCallbacks(p, loc.n, loc.i, taken),
                              !.done = IF loc.i + 1 = Len(loc.x_samples_ddim)
                                       THEN @ \cup {loc.n} ELSE @]
            /\ loc' = [loc EXCEPT !.i = @ + 1]
            /\ UNCHANGED <<pc, exc>>
    /\ UNCHANGED <<opts, opts0, loaded, p, state, stored_opts, res>>
    /\ UNCHANGED <<cacheVars, imgVars>>
    /\ UNCHANGED noiseVars

\* A job counter that is advanced by two.
nextjob_twice(st) == [st EXCEPT !.job_no = @ + 2]

\* state.nextjob() (line 576): the job counter advances by one
nextjob(st) == [st EXCEPT !.job_no = @ + 1]

\* process_images_inner, lines 572-576: state.nextjob(), on to the next n
NextJob ==
    /\ pc = "post"
    /\ loc.i = Len(loc.x_samples_ddim)
    /\ state' = nextjob(state)
    /\ hist' = [hist EXCEPT !.jobs = @ \cup {loc.n}]
    /\ loc' = [loc EXCEPT !.n = @ + 1]
    /\ pc' = "loop"
    /\ UNCHANGED <<opts, opts0, loaded, p, stored_opts, output_images, infotexts, res, exc>>
    /\ UNCHANGED <<cacheVars, imgVars>>
    /\ UNCHANGED noiseVars

\* The condition of line 582 without the image count.
GridWantedWhateverTheCount(r, o, images_list) ==
    (o.return_grid \/ o.grid_save) /\ ~r.do_not_save_grid

\* lines 581-582: whether a grid is assembled
GridWanted(r, o, images_list) ==
    LET unwanted_grid_because_of_img_count ==
            Len(images_list) < 2 /\ o.grid_only_if_multiple
    IN  (o.return_grid \/ o.grid_save) /\ ~r.do_not_save_grid
        /\ ~unwanted_grid_because_of_img_count

\* process_images_inner, lines 578-594: p.color_corrections = None, the grid
AfterLoop ==
    /\ pc = "after_loop"
    /\ p' = [p EXCEPT !.color_corrections = None]
    /\ LET grid == GridWanted(p, opts, output_images)
       IN  /\ IF grid /\ opts.return_grid
              THEN /\ infotexts' = <<infotext(p, 0, 0)>> \o infotexts
                   /\ output_images' = <<<<"grid">>>> \o output_images
                   /\ loc' = [loc EXCEPT !.index_of_first_image = 1]
              ELSE UNCHANGED <<infotexts, output_images, loc>>
           /\ hist' = [hist EXCEPT !.grid = IF grid THEN "assembled" ELSE "skipped"]
    /\ pc' = "finish"
    /\ UNCHANGED <<opts, opts0, loaded, state, stored_opts, res, exc>>
    /\ UNCHANGED <<cacheVars, imgVars>>
    /\ UNCHANGED noiseVars

\* Processed(p, output_images, p.all_seeds[0], infotext(), ...) (line 601)
Processed(r, images_list, index_of_first_image, texts) ==
    [images |-> images_list, seed |-> r.all_seeds[1], subseed |-> r.all_subseeds[1],
     info |-> infotext(r, 0, 0), index_of_first_image |-> index_of_first_image,
     infotexts |-> texts]

\* process_images_inner, lines 596-606: the result
Finish ==
    /\ pc = "finish"
    /\ IF Len(p.all_seeds) = 0 \/ Len(p.all_subseeds) = 0 \/ InfotextIndexError(p, 0)
       THEN /\ Raise("IndexError")
            /\ UNCHANGED res
            /\ UNCHANGED hist
       ELSE /\ res' = Processed(p, output_images, loc.index_of_first_image, infotexts)
            /\ hist' = [hist EXCEPT !.callbacks = @ \o ScriptCall(p, "postprocess", -1, -1)]
            /\ pc' = "finally"
            /\ UNCHANGED exc
    /\ UNCHANGED <<opts, opts0, loaded, p, state, stored_opts, loc, output_images, infotexts>>
    /\ UNCHANGED <<cacheVars, imgVars>>
    /\ UNCHANGED noiseVars

\* The places of an iteration that has passed its boundary check.
MidIteration == {"slice", "cond_uc", "cond_c", "sample", "decode", "post"}

\* Another thread sets shared.state.interrupted while the run is under way.
Interrupt ==
    /\ pc \in {"inner", "init", "loop"} \cup MidIteration
    /\ ~state.interrupted
    /\ state' = [state EXCEPT !.interrupted = TRUE]
    /\ hist' = IF pc \in MidIteration THEN [hist EXCEPT !.mid = @ \cup {loc.n}] ELSE hist
    /\ UNCHANGED <<opts, opts0, loaded, p, pc, stored_opts, loc, output_images, infotexts, res, exc>>
    /\ UNCHANGED <<cacheVars, imgVars>>
    /\ UNCHANGED noiseVars

\* The steps of process_images and process_images_inner.
RunNext ==
    \/ StoreOpts
    \/ CheckCheckpoint
    \/ ApplyOverride
    \/ EnterInner
    \/ InnerBegin
    \/ InnerInit
    \/ LoopHead
    \/ SliceBatch
    \/ CondUc
    \/ CondC
    \/ SampleBatch
    \/ Decode
    \/ PostImage
    \/ NextJob
    \/ AfterLoop
    \/ Finish
    \/ Finally

\* Prompt k of a list, and lists of k prompts, negative prompts and seeds.
PromptList(k) == List([j \in 1..k |-> <<"prompt", j>>])
NegativePromptList(k) == List([j \in 1..k |-> <<"negative prompt", j>>])
SeedList(k) == List([j \in 1..k |-> 100 + 10 * j])
SubseedList(k) == List([j \in 1..k |-> 200 + 10 * j])

\* Requests with option overrides, a scalar prompt, an empty prompt list or a
\* list of one prompt.
OverrideRequests ==
    {Request(ov, restore, prompt, Scalar(<<"negative prompt", 0>>), Scalar(100), Scalar(200), 0, b, n) :
        ov \in OverrideSettings, restore \in BOOLEAN,
        prompt \in {Scalar(<<"prompt", 0>>), PromptList(0), PromptList(1)},
        b \in 1..MaxBatch, n \in 1..MaxNIter}

\* The options process_images is called under.
RunOpts ==
    {[DefaultOpts EXCEPT !.return_grid = g, !.grid_only_if_multiple = m] :
        g \in BOOLEAN, m \in BOOLEAN}

Init ==
    /\ CacheIdle
    /\ ImgIdle
    /\ NoiseIdle
    /\ \E r \in OverrideRequests, o \in RunOpts : RunReady(r, o)

Next == RunNext \/ Interrupt

\* process_images on a request with option overrides, interruptible.
Spec == Init /\ [][Next]_vars

\* Requests whose prompt, negative prompt, seed and sub-seed are each a scalar
\* or a list of 1..MaxList entries.
ListRequests ==
    {Request([EmptyDict EXCEPT !["CLIP_stop_at_last_layers"] = "2"], TRUE, prompt, negative_prompt, seed, subseed, strength, b, n) :
        prompt \in {Scalar(<<"prompt", 0>>)} \cup {PromptList(k) : k \in 1..MaxList},
        negative_prompt \in {Scalar(<<"negative prompt", 0>>)} \cup {NegativePromptList(k) : k \in 1..MaxList},
        seed \in {Scalar(100), Scalar(-1)} \cup {SeedList(k) : k \in 1..MaxList},
        subseed \in {Scalar(200)} \cup {SubseedList(k) : k \in 1..MaxList},
        strength \in {0, 1},
        b \in 1..MaxBatch, n \in 1..MaxNIter}

ListsInit ==
    /\ CacheIdle
    /\ ImgIdle
    /\ NoiseIdle
    /\ \E r \in ListRequests : RunReady(r, DefaultOpts)

\* process_images on requests of every scalar / list form, not interrupted.
SpecLists == ListsInit /\ [][RunNext]_vars

\* Requests that differ in what the per-image loop is asked to do: face
\* restoration, saving, a color correction for the first image, mask outputs.
PostRequests ==
    {[Request([EmptyDict EXCEPT !["CLIP_stop_at_last_layers"] = "2"], TRUE,
              Scalar(<<"prompt", 0>>), Scalar(<<"negative prompt", 0>>),
              Scalar(100), Scalar(200), 0, b, 1)
        EXCEPT !.restore_faces = rf, !.do_not_save_samples = dns,
               !.color_corrections = cc, !.has_masks_for_overlay = m] :
        rf \in BOOLEAN, dns \in BOOLEAN, cc \in {None, <<"correction 0">>},
        m \in BOOLEAN, b \in 1..MaxBatch}

\* The options of the per-image loop.
PostOpts ==
    {[DefaultOpts EXCEPT !.save = sv, !.samples_save = ss,
                         !.save_images_before_face_restoration = bf,
                         !.save_images_before_color_correction = bc,
                         !.save_mask = sm, !.save_mask_composite = smc,
                         !.return_mask = rm, !.return_mask_composite = rmc] :
        sv \in BOOLEAN, ss \in BOOLEAN, bf \in BOOLEAN, bc \in BOOLEAN,
        sm \in BOOLEAN, smc \in BOOLEAN, rm \in BOOLEAN, rmc \in BOOLEAN}

PostInit ==
    /\ CacheIdle
    /\ ImgIdle
    /\ NoiseIdle
    /\ \E r \in PostRequests, o \in PostOpts : RunReady(r, o)

\* process_images under every setting of the post-processing switches.
SpecPost == PostInit /\ [][RunNext]_vars

\* Requests with a scalar prompt and a scalar seed, with and without masks,
\* with an initial-noise multiplier of 1.0 and of 0.5.
GridRequests ==
    {[Request([EmptyDict EXCEPT !["CLIP_stop_at_last_layers"] = "2"], TRUE,
              Scalar(<<"prompt", 0>>), Scalar(<<"negative prompt", 0>>),
              Scalar(100), Scalar(200), strength, b, n)
        EXCEPT !.do_not_save_grid = dng, !.has_masks_for_overlay = m,
               !.initial_noise_multiplier = mult] :
        strength \in {0, 1}, dng \in BOOLEAN, m \in BOOLEAN, mult \in {100, 50},
        b \in 1..MaxBatch, n \in 1..MaxNIter}

\* The options of the grid; masks are returned when there are any.
GridOpts ==
    {[DefaultOpts EXCEPT !.return_grid = g, !.grid_save = gs,
                         !.grid_only_if_multiple = m, !.return_mask = TRUE] :
        g \in BOOLEAN, gs \in BOOLEAN, m \in BOOLEAN}

GridInit ==
    /\ CacheIdle
    /\ ImgIdle
    /\ NoiseIdle
    /\ \E r \in GridRequests, o \in GridOpts : RunReady(r, o)

\* process_images under every setting of the grid switches, interruptible.
SpecGrid == GridInit /\ [][Next]_vars

\* Requests with a scalar prompt and every form of a scalar seed and sub-seed:
\* a number, a negative number, -1, None, the empty string.
SeedRequests ==
    {Request([EmptyDict EXCEPT !["CLIP_stop_at_last_layers"] = "2"], TRUE,
             Scalar(<<"prompt", 0>>), Scalar(<<"negative prompt", 0>>),
             seed, subseed, strength, b, n) :
        seed \in {Scalar(100), Scalar(-1), Scalar(-2), NoneSeed, EmptyStringSeed},
        subseed \in {Scalar(200), Scalar(-1), NoneSeed, EmptyStringSeed},
        strength \in {0, 1},
        b \in 1..MaxBatch, n \in 1..MaxNIter}

SeedsInit ==
    /\ CacheIdle
    /\ ImgIdle
    /\ NoiseIdle
    /\ \E r \in SeedRequests : RunReady(r, DefaultOpts)

\* process_images on requests with every form of scalar seed, not interrupted.
SpecSeeds == SeedsInit /\ [][RunNext]_vars

\* Requests with and without masks for the overlay.
MaskOutRequests ==
    {[Request([EmptyDict EXCEPT !["CLIP_stop_at_last_layers"] = "2"], TRUE,
              Scalar(<<"prompt", 0>>), Scalar(<<"negative prompt", 0>>),
              Scalar(100), Scalar(200), 0, b, n)
        EXCEPT !.has_masks_for_overlay = m] :
        m \in BOOLEAN, b \in 1..MaxBatch, n \in 1..MaxNIter}

\* Every setting of the options that decide what is returned: the grid, the
\* mask, the mask composite.
MaskOutOpts ==
    {[DefaultOpts EXCEPT !.return_grid = g, !.grid_only_if_multiple = m,
                         !.return_mask = rm, !.return_mask_composite = rc] :
        g \in BOOLEAN, m \in BOOLEAN, rm \in BOOLEAN, rc \in BOOLEAN}

MaskOutInit ==
    /\ CacheIdle
    /\ ImgIdle
    /\ NoiseIdle
    /\ \E r \in MaskOutRequests, o \in MaskOutOpts : RunReady(r, o)

\* process_images under every setting of the grid and mask outputs,
\* interruptible.
SpecMaskOut == MaskOutInit /\ [][Next]_vars

\* Requests with scripts attached: a scalar prompt or a list of prompts that
\* may run out before the last iteration.
ScriptRequests ==
    {[Request([EmptyDict EXCEPT !["CLIP_stop_at_last_layers"] = "2"], TRUE,
              prompt, Scalar(<<"negative prompt", 0>>), Scalar(100), Scalar(200), 0, b, n)
        EXCEPT !.scripts = TRUE] :
        prompt \in {Scalar(<<"prompt", 0>>)} \cup {PromptList(k) : k \in 1..MaxList},
        b \in 1..MaxBatch, n \in 1..MaxNIter}

ScriptsInit ==
    /\ CacheIdle
    /\ ImgIdle
    /\ NoiseIdle
    /\ \E r \in ScriptRequests : RunReady(r, DefaultOpts)

\* process_images with scripts attached, interruptible.
SpecScripts == ScriptsInit /\ [][Next]_vars

\* process_images has exited, by return or by an exception.
Exited == pc \in {"returned", "raised"}

\* C1 as stated: after process_images exits, by return or by exception and
\* whatever override_settings_restore_afterwards is, every option key named in
\* override_settings has the value it had before the call.
C1_OptionsRestored ==
    Exited => \A k \in Keys(stored_opts) : opts[k] = opts0[k]

\* C1, amended: when override_settings_restore_afterwards is true, every
\* option key named in override_settings has, after process_images exits by
\* return or by exception, the value it had before the call.
C1_OptionsRestoredWhenAsked ==
    (Exited /\ p.override_settings_restore_afterwards) =>
        \A k \in Keys(stored_opts) : opts[k] = opts0[k]

\* An exception left process_images_inner after an override had changed an
\* option, and the options are back.
C1_Witness ==
    /\ pc = "raised"
    /\ exc = "NansException"
    /\ p.override_settings_restore_afterwards
    /\ \E k \in Keys(p.override_settings) : p.override_settings[k] # opts0[k]
    /\ opts = opts0

\* The number of latents p.sample returned for iteration k.
BatchLen(k) == Len(Slice(p.all_seeds, k * p.batch_size, (k + 1) * p.batch_size))

\* C2: when the flag is seen set at the head of iteration n, nothing is
\* sampled, decoded or post-processed for iteration n or a later one, no
\* exception is raised, and the Processed result that is returned holds every
\* image the earlier iterations produced.
C2_InterruptStops ==
    hist.seen_at >= 0 =>
        /\ \A k \in hist.sampled \cup hist.decoded \cup {q[1] : q \in hist.posted} :
              k < hist.seen_at
        /\ exc = NoException
        /\ pc # "raised"
        /\ pc = "returned" =>
              /\ res # None
              /\ \A q \in hist.posted :
                    \E j \in 1..Len(res.images) : res.images[j] = <<"image", q[1], q[2]>>

\* A run stopped at the head of a later iteration than the first, returning
\* the images of the iterations before it.
C2_Witness ==
    /\ pc = "returned"
    /\ hist.seen_at >= 1
    /\ hist.seen_at < p.n_iter
    /\ hist.posted # {}
    /\ hist.stop = "interrupted"

\* C3: the flag is read at the head of an iteration only: an iteration that
\* passed its boundary check with a non-empty batch and during which the flag
\* became set is, unless an exception ends the run, sampled, decoded and
\* post-processed image by image, and the job counter advanced for it, before
\* the run stops.
C3_StartedIterationCompletes ==
    (pc \in {"loop", "after_loop", "finish", "finally", "returned"} /\ exc = NoException) =>
        \A k \in hist.mid \cap hist.nonempty :
            /\ k \in hist.sampled
            /\ k \in hist.decoded
            /\ \A i \in 0..(BatchLen(k) - 1) : <<k, i>> \in hist.posted
            /\ k \in hist.jobs
            /\ state.job_no >= k + 1

\* The flag came while iteration k was under way; the iteration was finished
\* and the run stopped at the head of iteration k + 1.
C3_Witness ==
    /\ pc = "returned"
    /\ hist.stop = "interrupted"
    /\ \E k \in hist.mid :
          /\ hist.seen_at = k + 1
          /\ k \in hist.jobs
          /\ \A i \in 0..(p.batch_size - 1) : <<k, i>> \in hist.posted
          /\ state.job_no = k + 1

\* The first call of p.sample is about to be made.
FirstSampling == pc = "sample" /\ loc.n = 0

\* C6 as stated: at the first sampling call all_prompts, all_negative_prompts,
\* all_seeds and all_subseeds have the same length, for every request.
C6_EqualLengths ==
    FirstSampling =>
        /\ Len(p.all_negative_prompts) = Len(p.all_prompts)
        /\ Len(p.all_seeds) = Len(p.all_prompts)
        /\ Len(p.all_subseeds) = Len(p.all_prompts)

(***************************************************************************)
(* slerp (lines 194-205) and create_random_tensors (lines 208-268) called  *)
(* on their own.                                                           *)
(***************************************************************************)
\* A tensor whose channels all hold row k of NoiseRows.
Uniform(k) == [c \in 1..opt_C |-> NoiseRows[k]]

\* The tensors slerp is called with: pairs of them are equal, parallel of
\* different length, opposite, at an angle, or parallel in one channel only.
SlerpTensors ==
    {Uniform(1), Uniform(2), Uniform(3), Uniform(4), Uniform(7),
     [Uniform(2) EXCEPT ![1] = NoiseRows[1]],
     [Uniform(1) EXCEPT ![2] = NoiseRows[4]],
     [Uniform(7) EXCEPT ![4] = NoiseRows[5]]}

\* slerp(val, low, high) for val 0 or 1
CallSlerp ==
    /\ \E val \in {0, 1}, low \in SlerpTensors, high \in SlerpTensors :
          slerp_call' = [val |-> val, low |-> low, high |-> high, res |-> slerp(val, low, high)]
    /\ UNCHANGED <<rng, sampler_noises, noise_call>>
    /\ UNCHANGED cacheVars
    /\ UNCHANGED imgVars
    /\ UNCHANGED runVars

SlerpInit == CacheIdle /\ ImgIdle /\ RunIdle /\ NoiseIdle

SpecSlerp == SlerpInit /\ [][CallSlerp]_vars

\* The largest height and width, in latent cells, of the shapes of a paste.
MaxLatent == 4

\* lines 241-248 for one dimension of target cells and noise_shape source
\* cells: where the window starts in the target (t) and in the source (s),
\* counted from 0, and its extent; // rounds down, also below 0.
PasteWindow(target, source) ==
    LET d == (target - source) \div 2
    IN  [t |-> IF d < 0 THEN 0 ELSE d,
         s |-> Max(0 - d, 0),
         extent |-> IF d >= 0 THEN source ELSE source + 2 * d]

\* line 250, x[:, ty:ty+h, tx:tx+w] = noise[:, dy:dy+h, dx:dx+w], on one
\* channel: each cell of the result names the cell of noise or of x it holds.
Pasted(shape, noise_shape) ==
    LET wy == PasteWindow(shape[1], noise_shape[1])
        wx == PasteWindow(shape[2], noise_shape[2])
    IN  [r \in 1..shape[1] |->
            [c \in 1..shape[2] |->
                IF /\ wy.t < r /\ r <= wy.t + wy.extent
                   /\ wx.t < c /\ c <= wx.t + wx.extent
                THEN <<"noise", r - wy.t + wy.s, c - wx.t + wx.s>>
                ELSE <<"x", r, c>>]]

\* create_random_tensors, lines 239-251: the branch taken when noise_shape
\* differs from shape, for a target of th by tw and a source of sh by sw cells
ResizePaste ==
    /\ \E th \in 1..MaxLatent, tw \in 1..MaxLatent, sh \in 1..MaxLatent, sw \in 1..MaxLatent :
          /\ <<sh, sw>> # <<th, tw>>
          /\ noise_call' = [shape |-> <<th, tw>>,
                            noise_shape |-> <<sh, sw>>,
                            x |-> Pasted(<<th, tw>>, <<sh, sw>>)]
    /\ UNCHANGED <<rng, sampler_noises, slerp_call>>
    /\ UNCHANGED cacheVars
    /\ UNCHANGED imgVars
    /\ UNCHANGED runVars

ResizeInit == CacheIdle /\ ImgIdle /\ RunIdle /\ NoiseIdle

\* The resize-from branch of create_random_tensors on every pair of shapes.
SpecResize == ResizeInit /\ [][ResizePaste]_vars

\* The arguments create_random_tensors is called with.
SeedLists == {<<100>>, <<101>>, <<100, 101>>}
SubseedArgs == {None, <<200>>, <<200, 201>>}
Strengths == {0, 1}
ResizeFrom == {0, 24}

\* create_random_tensors(shape, seeds, subseeds, subseed_strength,
\* seed_resize_from_h, seed_resize_from_w, p), lines 208-268
NoiseCall ==
    /\ \E seeds \in SeedLists, subseeds \in SubseedArgs, strength \in Strengths,
          resize \in ResizeFrom, has_sampler \in BOOLEAN :
          \* subseed_strength is read only when sub-seeds are given
          /\ subseeds = None => strength = 0
          /\ subseeds = <<200>> => strength = 1
          /\ LET r == CreateRandomTensors(Cells, seeds, subseeds, strength, resize,
                                          has_sampler, opts, rng, sampler_noises)
             IN  /\ noise_call' = [seeds |-> seeds,
                                   subseeds |-> subseeds,
                                   subseed_strength |-> strength,
                                   seed_resize_from |-> resize,
                                   has_sampler |-> has_sampler,
                                   rng_before |-> rng,
                                   sampler_before |-> sampler_noises,
                                   x |-> r.x]
                 /\ rng' = r.rng
                 /\ sampler_noises' = r.sampler_noises
    /\ UNCHANGED slerp_call
    /\ UNCHANGED cacheVars
    /\ UNCHANGED imgVars
    /\ UNCHANGED runVars

\* The options create_random_tensors runs under.
NoiseOpts ==
    {[DefaultOpts EXCEPT !.enable_batch_seeds = e, !.eta_noise_seed_delta = d] :
        e \in BOOLEAN, d \in {0, 31337}} \ {[DefaultOpts EXCEPT !.enable_batch_seeds = FALSE,
                                                           !.eta_noise_seed_delta = 31337]}

NoiseInit == CacheIdle /\ ImgIdle /\ NoiseIdle /\ \E o \in NoiseOpts : RunIdleWith(o)

SpecNoise == NoiseInit /\ [][NoiseCall]_vars

\* C11: slerp(0, low, high) is low and slerp(1, low, high) is high, for all
\* inputs, on the spherical branch and on the linear branch.
C11_SlerpEndpoints ==
    slerp_call # None =>
        /\ slerp_call.val = 0 => slerp_call.res = slerp_call.low
        /\ slerp_call.val = 1 => slerp_call.res = slerp_call.high

\* The sub-seed list a call for row i alone is given.
SubseedsOfRow(subseeds, i) ==
    IF subseeds = None THEN None
    ELSE IF i <= Len(subseeds) THEN <<subseeds[i]>> ELSE <<0>>

\* The generator states and sampler contents a call may find.
GeneratorStates == {rng, <<1, 0>>, <<31438, 16>>}

ImagesOf(images_list, k) ==
    {j \in 1..Len(images_list) : Len(images_list[j]) = 3 /\ images_list[j][2] = k}

\* The logged post-processing steps of iteration k.
StepsOf(k) == {j \in 1..Len(hist.steps) : hist.steps[j][1] = k}

\* C14: once the NaN check has failed on a decoded image of iteration n, the
\* run is on its way out with NansException, which process_images passes on to
\* its caller: no Processed result exists, and no image of iteration n has
\* been saved, post-processed or appended to the output sequence.
C14_NanAborts ==
    hist.nan_at >= 0 =>
        /\ pc \in {"finally", "raised"}
        /\ exc = "NansException"
        /\ res = None
        /\ StepsOf(hist.nan_at) = {}
        /\ ImagesOf(output_images, hist.nan_at) = {}
        /\ \A q \in hist.posted : q[1] # hist.nan_at

\* The NaN check failed in the second iteration, after the first had
\* appended its images, and the error reached the caller.
C14_Witness ==
    /\ pc = "raised"
    /\ exc = "NansException"
    /\ hist.nan_at = 1
    /\ ImagesOf(output_images, 0) # {}

\* C15: when the prompt slice of iteration n is empty the loop ends there
\* without an exception: nothing is conditioned, sampled or post-processed for
\* iteration n or a later one, every earlier iteration has run to its end,
\* and the Processed result that is returned holds their images.
C15_EmptySliceEndsLoop ==
    hist.empty_at >= 0 =>
        /\ exc = NoException
        /\ pc \in {"after_loop", "finish", "finally", "returned"}
        /\ \A k \in hist.cond \cup hist.sampled \cup hist.decoded : k < hist.empty_at
        /\ \A q \in hist.posted : q[1] < hist.empty_at
        /\ \A j \in 1..Len(hist.steps) : hist.steps[j][1] < hist.empty_at
        /\ \A k \in 0..(hist.empty_at - 1) : k \in hist.jobs /\ <<k, 0>> \in hist.posted
        /\ pc = "returned" =>
              /\ res # None
              /\ \A q \in hist.posted :
                    \E j \in 1..Len(res.images) : res.images[j] = <<"image", q[1], q[2]>>
              /\ \A k \in 0..(MaxNIter + 1) :
                    ImagesOf(res.images, k) # {} => k < hist.empty_at

\* A run whose second prompt slice was empty returned the image of its first
\* iteration.
C15_Witness ==
    /\ pc = "returned"
    /\ hist.empty_at = 1
    /\ ImagesOf(res.images, 0) # {}

\* C16 as stated: an override naming a model checkpoint or a VAE that cannot
\* be found is removed from override_settings and its value never reaches the
\* global options.
C16_MissingOverrideDropped ==
    /\ opts.sd_model_checkpoint # "ckpt_missing"
    /\ opts.sd_vae # "vae_missing"
    /\ pc \notin {"call", "check_checkpoint"} =>
          /\ p.override_settings["sd_model_checkpoint"] # "ckpt_missing"
          /\ p.override_settings["sd_vae"] # "vae_missing"

\* C16, for the model checkpoint: when override_settings names a model
\* checkpoint that cannot be found, the entry is removed without an exception,
\* the missing name never reaches the global options, and the run goes on
\* with the checkpoint the unmodified options select.
C16_MissingCheckpointDropped ==
    /\ opts.sd_model_checkpoint # "ckpt_missing"
    /\ hist.dropped =>
          /\ p.override_settings["sd_model_checkpoint"] = Absent
          /\ opts.sd_model_checkpoint = opts0.sd_model_checkpoint
          /\ loaded.checkpoint = opts0.sd_model_checkpoint
          /\ pc = "apply" => exc = NoException

\* A run whose override named a missing model checkpoint returned its images.
C16_Witness ==
    /\ hist.dropped
    /\ pc = "returned"
    /\ res # None
    /\ ImagesOf(res.images, 0) # {}

\* The place of a step in the order of C17; 0 for a step C17 does not name.
Rank(step) ==
    CASE step = "save_before_face_restoration" -> 1
      [] step = "restore_faces" -> 2
      [] step = "apply_color_correction" -> 3
      [] step = "apply_overlay" -> 4
      [] step = "save_image" -> 5
      [] step = "infotext" -> 6
      [] step = "append_mask" -> 7
      [] step = "append_mask_composite" -> 8
      [] OTHER -> 0

\* The steps <<n, i, step>> logged for image i of iteration n.
Has(n, i, step) == \E j \in 1..Len(hist.steps) : hist.steps[j] = <<n, i, step>>

\* C17: the steps of one image are taken in the order pre-restoration save,
\* face restoration, color correction, overlay, final save, metadata string,
\* mask output, mask-composite output, and never in another; each one is
\* taken exactly when it is enabled, and the steps of one image are over
\* before those of the next begin.
C17_FixedOrder ==
    /\ \A j \in 1..Len(hist.steps), k \in 1..Len(hist.steps) :
          j < k =>
            LET a == hist.steps[j]
                b == hist.steps[k]
            IN  /\ a[1] < b[1] \/ (a[1] = b[1] /\ a[2] <= b[2])
                /\ (a[1] = b[1] /\ a[2] = b[2] /\ Rank(a[3]) > 0 /\ Rank(b[3]) > 0)
                      => Rank(a[3]) < Rank(b[3])
    /\ pc = "post" =>
          \A q \in hist.posted :
            LET saving == ~p.do_not_save_samples
                with_masks == p.has_masks_for_overlay
            IN  /\ Has(q[1], q[2], "restore_faces") <=> p.restore_faces
                /\ Has(q[1], q[2], "save_before_face_restoration")
                      <=> (p.restore_faces /\ opts.save /\ saving
                           /\ opts.save_images_before_face_restoration)
                /\ Has(q[1], q[2], "apply_color_correction") <=> q[2] < Len(p.color_corrections)
                /\ Has(q[1], q[2], "apply_overlay")
                /\ Has(q[1], q[2], "save_image") <=> (opts.samples_save /\ saving)
                /\ Has(q[1], q[2], "infotext")
                /\ Has(q[1], q[2], "append_mask") <=> (with_masks /\ opts.return_mask)
                /\ Has(q[1], q[2], "append_mask_composite")
                      <=> (with_masks /\ opts.return_mask_composite)

\* The first image of a run went through every step C17 names.
C17_Witness ==
    /\ pc = "returned"
    /\ \A step \in {"save_before_face_restoration", "restore_faces", "apply_color_correction",
                     "apply_overlay", "save_image", "infotext", "append_mask",
                     "append_mask_composite"} : Has(0, 0, step)

\* The grid is the first entry of the outputs.
GridPrepended(images_list) == images_list # <<>> /\ images_list[1] = <<"grid">>

\* The outputs the loop appended, the grid not counted.
OutputCount(images_list) ==
    Len(images_list) - (IF GridPrepended(images_list) THEN 1 ELSE 0)

\* C18: once the loop is over, a grid has been assembled exactly when
\* (return_grid or grid_save) holds, do_not_save_grid is false and it is not
\* the case that there are fewer than 2 output images while
\* grid_only_if_multiple is set; the grid and its metadata string have been
\* prepended exactly when, in addition, return_grid is set; and
\* index_of_first_image is 1 exactly when the grid was prepended, else 0.
C18_GridTruthTable ==
    hist.grid # "pending" =>
        LET assembled ==
                /\ opts0.return_grid \/ opts0.grid_save
                /\ ~p.do_not_save_grid
                /\ ~(OutputCount(output_images) < 2 /\ opts0.grid_only_if_multiple)
        IN  /\ hist.grid = "assembled" <=> assembled
            /\ GridPrepended(output_images) <=> (assembled /\ opts0.return_grid)
            /\ Len(infotexts) =
                   Cardinality(hist.posted) + (IF assembled /\ opts0.return_grid THEN 1 ELSE 0)
            /\ GridPrepended(output_images) => infotexts[1] = infotext(p, 0, 0)
            /\ loc.index_of_first_image = (IF GridPrepended(output_images) THEN 1 ELSE 0)
            /\ pc = "returned" =>
                  /\ res.index_of_first_image = (IF GridPrepended(res.images) THEN 1 ELSE 0)
                  /\ res.images = output_images
                  /\ res.infotexts = infotexts

\* A run of one image with grid_only_if_multiple set returned without a grid
\* although return_grid was set.
C18_Witness ==
    /\ pc = "returned"
    /\ opts0.return_grid
    /\ opts0.grid_only_if_multiple
    /\ ~p.do_not_save_grid
    /\ Len(res.images) = 1
    /\ hist.grid = "skipped"
    /\ res.index_of_first_image = 0

\* A returned run that was not interrupted, with no masks and no grid in its
\* result.
UninterruptedPlainRun ==
    /\ pc = "returned"
    /\ ~state.interrupted
    /\ ~p.has_masks_for_overlay
    /\ ~GridPrepended(res.images)

\* C19 as stated: such a run yields batch_size * n_iter images with
\* index_of_first_image 0, and for batch size 2, one iteration and seed 100
\* all_seeds is [100, 101].
C19_ImageCountAndSeeds ==
    UninterruptedPlainRun =>
        /\ Len(res.images) = p.batch_size * p.n_iter
        /\ res.index_of_first_image = 0
        /\ (p.batch_size = 2 /\ p.n_iter = 1 /\ p.seed = Scalar(100))
              => (Len(res.images) = 2 /\ p.all_seeds = <<100, 101>>)

\* C19, with the sub-seed strength: such a run yields batch_size * n_iter
\* images with index_of_first_image 0, and for batch size 2, one iteration,
\* seed 100 and sub-seed strength 0 all_seeds is [100, 101].
C19_ImageCountAndSeedsAtStrengthZero ==
    UninterruptedPlainRun =>
        /\ Len(res.images) = p.batch_size * p.n_iter
        /\ res.index_of_first_image = 0
        /\ (p.batch_size = 2 /\ p.n_iter = 1 /\ p.seed = Scalar(100) /\ p.subseed_strength = 0)
              => (Len(res.images) = 2 /\ p.all_seeds = <<100, 101>>)

\* The run of batch size 2, one iteration, seed 100 and sub-seed strength 0
\* returned its two images.
C19_Witness ==
    /\ UninterruptedPlainRun
    /\ p.batch_size = 2
    /\ p.n_iter = 1
    /\ p.subseed_strength = 0
    /\ p.all_seeds = <<100, 101>>
    /\ Len(res.images) = 2

\* C20 as stated: with one source image and one mask in full-resolution
\* inpaint mode the output image has the request's width, whatever the size
\* of the source image.
C20_OutputHasRequestSize ==
    \A j \in 1..Len(output_widths) : output_widths[j] = Width

\* C20, for the size the code gives: with one source image and one mask in
\* full-resolution inpaint mode the output image has the size of the source
\* image, which is the request's size exactly when the source image has it.
C20_OutputHasSourceSize ==
    \A j \in 1..Len(output_widths) :
        /\ output_widths[j] = Len(self.init_images[j])
        /\ output_widths[j] = Width <=> Len(self.init_images[j]) = Width

\* The output for a source image wider than the request has come out as wide
\* as the source image.
C20_Witness ==
    /\ ipc = "sampled"
    /\ self.inpaint_full_res
    /\ Len(self.init_images) = 1 /\ Len(self.image_masks) = 1
    /\ Len(self.init_images[1]) > Width
    /\ output_widths = <<Len(self.init_images[1])>>

\* C28: after any sequence of get_conds_with_caching calls, some of which
\* raise in the compute function, each slot is empty or holds a result that
\* the compute function returned, in a call that did not raise, for exactly
\* the key stored with it; and a call that raised left the key and the result
\* of its slot as they were.
C28_SlotConsistentUnderRaise ==
    /\ \A cell \in {cached_uc, cached_c} :
          \/ cell = NewCache
          \/ \E j \in 1..Len(calls) :
                /\ ~calls[j].raised /\ calls[j].invoked
                /\ calls[j].key = cell[1]
                /\ calls[j].result = cell[2]
                /\ cell[2][2] = cell[1][1] /\ cell[2][3] = cell[1][2]
    /\ \A j \in 1..Len(calls) : calls[j].raised => calls[j].after = calls[j].before

\* A call with another key raised on a slot that held a result, and the slot
\* still holds the key and result of the earlier call.
C28_Witness ==
    /\ Len(calls) = 2
    /\ calls[1].slot = "uc" /\ calls[2].slot = "uc"
    /\ ~calls[1].raised /\ calls[2].raised
    /\ calls[1].key # calls[2].key
    /\ cached_uc = <<calls[1].key, calls[1].result>>

\* The callbacks of iteration k when it runs to its end: one
\* postprocess_image for each image it appended, in batch order.
IterationCallbacks(k) ==
    <<<<"before_process_batch", k, -1>>, <<"process_batch", k, -1>>,
      <<"postprocess_batch", k, -1>>>>
    \o [i \in 1..Cardinality({q \in hist.posted : q[1] = k}) |-> <<"postprocess_image", k, i - 1>>]

\* The callbacks of iterations 0..m-1.
RECURSIVE CallbacksUpTo(_)
CallbacksUpTo(m) ==
    IF m = 0 THEN <<>> ELSE CallbacksUpTo(m - 1) \o IterationCallbacks(m - 1)

\* C21 as stated: in every run that returns the callbacks are process once,
\* then for each executed iteration before_process_batch, process_batch,
\* postprocess_batch and one postprocess_image per image in batch order, then
\* postprocess once, and no others, also when the run ended early.
C21_CallbackOrder ==
    (pc = "returned" /\ p.scripts) =>
        /\ hist.done = 0..(Cardinality(hist.done) - 1)
        /\ hist.callbacks = <<<<"process", -1, -1>>>>
                             \o CallbacksUpTo(Cardinality(hist.done))
                             \o <<<<"postprocess", -1, -1>>>>

\* C21, with the callback of the empty batch: as stated, except that a run
\* that ended on an empty batch at iteration n has called
\* before_process_batch for n, and nothing else for n, before postprocess.
C21_CallbackOrderWithEmptyBatch ==
    (pc = "returned" /\ p.scripts) =>
        /\ hist.done = 0..(Cardinality(hist.done) - 1)
        /\ hist.sampled = hist.done
        /\ hist.callbacks = <<<<"process", -1, -1>>>>
                             \o CallbacksUpTo(Cardinality(hist.done))
                             \o (IF hist.empty_at >= 0
                                 THEN <<<<"before_process_batch", hist.empty_at, -1>>>>
                                 ELSE <<>>)
                             \o <<<<"postprocess", -1, -1>>>>

\* A run of two images in one iteration returned after an empty batch at the
\* second iteration.
C21_Witness ==
    /\ pc = "returned"
    /\ p.scripts
    /\ hist.empty_at = 1
    /\ Len(hist.callbacks) = 8

\* C22: the job counter is advanced once for each iteration that ran to its
\* end (all its images appended) and for no other: while the loop runs the
\* counter is at most one advance behind, and once the loop is over or the
\* run has left by an error it equals the number of completed iterations; an
\* iteration skipped by interruption, stopped on an empty batch or aborted by
\* an error is not among them.
C22_JobCounter ==
    /\ state.job_no <= Cardinality(hist.done)
    /\ Cardinality(hist.done) <= state.job_no + 1
    /\ state.job_no < Cardinality(hist.done) => (pc = "post" /\ loc.n \in hist.done)
    /\ pc \in {"after_loop", "finish", "finally", "returned", "raised"} =>
          /\ state.job_no = Cardinality(hist.done)
          /\ hist.seen_at \notin hist.done
          /\ hist.empty_at \notin hist.done
          /\ hist.nan_at \notin hist.done

\* A run of two iterations completed the first, advanced the counter once and
\* was stopped by the interruption flag at the head of the second.
C22_Witness ==
    /\ pc = "returned"
    /\ p.n_iter = 2
    /\ hist.seen_at = 1
    /\ hist.done = {0}
    /\ state.job_no = 1

\* The text has a "Noise multiplier" entry.
HasNoiseMultiplier(text) == "Noise multiplier" \in text[5]

\* The metadata strings of the output images: all of infotexts but the
\* grid's.
ImageTexts(texts, images_list) ==
    SubSeq(texts, (IF GridPrepended(images_list) THEN 2 ELSE 1), Len(texts))

\* The metadata string of every output image has a "Noise multiplier" entry
\* exactly when the initial-noise multiplier of the request is not 1.0.
ImageTextsRecordMultiplier ==
    /\ \A k \in 1..Len(ImageTexts(infotexts, output_images)) :
          HasNoiseMultiplier(ImageTexts(infotexts, output_images)[k])
              <=> p.initial_noise_multiplier # 100
    /\ pc = "returned" =>
          \A k \in 1..Len(ImageTexts(res.infotexts, res.images)) :
              HasNoiseMultiplier(ImageTexts(res.infotexts, res.images)[k])
                  <=> p.initial_noise_multiplier # 100

\* C23 as stated: the metadata of a run has a "Noise multiplier" entry
\* exactly when the initial-noise multiplier of the request is not 1.0: then
\* the entry is in the metadata string of every output image and in the
\* metadata written to params.txt, and otherwise in none of them.
C23_NoiseMultiplierRecorded ==
    /\ ImageTextsRecordMultiplier
    /\ hist.params_txt # None =>
          (HasNoiseMultiplier(hist.params_txt) <=> p.initial_noise_multiplier # 100)

\* The entries of the step log are in the order of the loops: iteration by
\* iteration, and inside an iteration image by image.
StepsInLoopOrder ==
    \A j, k \in 1..Len(hist.steps) :
        j < k => \/ hist.steps[j][1] < hist.steps[k][1]
                 \/ /\ hist.steps[j][1] = hist.steps[k][1]
                    /\ hist.steps[j][2] <= hist.steps[k][2]

GivenAsRandom(seed) ==
    seed.kind \in {"none", "empty"} \/ (seed.kind = "scalar" /\ seed.v[1] = -1)

\* all_seeds and all_subseeds are the expansions of a seed s and a sub-seed t,
\* each the number given or, where None, '' or -1 was given, a value from 0 up.
SeedsExpanded ==
    LET N == Len(p.all_prompts)
        s == p.all_seeds[1]
        t == p.all_subseeds[1]
    IN  /\ N = p.batch_size * p.n_iter
        /\ Len(p.all_seeds) = N
        /\ Len(p.all_subseeds) = N
        /\ IF GivenAsRandom(p.seed) THEN s >= 0 ELSE s = p.seed.v[1]
        /\ IF GivenAsRandom(p.subseed) THEN t >= 0 ELSE t = p.subseed.v[1]
        /\ \A j \in 1..N :
              /\ p.all_seeds[j] = (IF p.subseed_strength = 0 THEN s + (j - 1) ELSE s)
              /\ p.all_subseeds[j] = t + (j - 1)

\* C25 as stated: for a scalar seed and a scalar sub-seed, all_seeds is
\* [s, s+1, ..., s+N-1] when subseed_strength is 0 and N times s otherwise,
\* all_subseeds is [t, t+1, ..., t+N-1], a seed or sub-seed given as None, ''
\* or -1 is replaced by a value from 0 up, and all_seeds never contains -1.
C25_SeedExpansion ==
    p.all_seeds # None =>
        /\ SeedsExpanded
        /\ \A j \in 1..Len(p.all_seeds) : p.all_seeds[j] # -1

\* C25, amended: the expansions are as stated, and all_seeds contains no -1
\* when the seed given is None, '', -1 or a number from 0 up; a seed below -1
\* is kept and its expansion may reach -1.
C25_SeedExpansionOfNonNegative ==
    p.all_seeds # None =>
        /\ SeedsExpanded
        /\ (GivenAsRandom(p.seed) \/ p.seed.v[1] >= 0) =>
              \A j \in 1..Len(p.all_seeds) : p.all_seeds[j] # -1

\* A seed of -1 and a sub-seed of None have been replaced and expanded over
\* four images.
C25_Witness ==
    /\ p.seed = Scalar(-1)
    /\ p.subseed = NoneSeed
    /\ p.subseed_strength = 0
    /\ p.all_seeds = <<2147480000, 2147480001, 2147480002, 2147480003>>
    /\ p.all_subseeds = <<0, 1, 2, 3>>

\* The rows (k = 1) or columns (k = 2) of the target that hold source noise,
\* and the rows or columns of the source they hold.
TargetCellsFromSource(k) ==
    {x[k] : x \in {<<r, c>> \in (1..noise_call.shape[1]) \X (1..noise_call.shape[2]) :
                      noise_call.x[r][c][1] = "noise"}}

SourceCellsUsed(k) ==
    {noise_call.x[x[1]][x[2]][k + 1] :
        x \in {<<r, c>> \in (1..noise_call.shape[1]) \X (1..noise_call.shape[2]) :
                  noise_call.x[r][c][1] = "noise"}}

\* cells is an interval inside 1..size whose margins differ by at most one.
CentredIn(cells, size) ==
    \E a \in 0..size, n \in 0..size :
        /\ cells = (a + 1)..(a + n)
        /\ a + n <= size
        /\ (size - (a + n)) - a \in {-1, 0, 1}

\* In dimension k the window has the extent min(source, target), is centred
\* in the target and in the source, covers the target when the source is at
\* least as large, and holds the whole source when it is smaller.
WindowAsStated(k) ==
    LET target == noise_call.shape[k]
        source == noise_call.noise_shape[k]
    IN  /\ Cardinality(TargetCellsFromSource(k)) = Min(source, target)
        /\ Cardinality(SourceCellsUsed(k)) = Min(source, target)
        /\ CentredIn(TargetCellsFromSource(k), target)
        /\ CentredIn(SourceCellsUsed(k), source)
        /\ source >= target => TargetCellsFromSource(k) = 1..target
        /\ source < target => SourceCellsUsed(k) = 1..source

\* C26 as stated: in the resize-from branch, for all positive source and
\* target sizes, the copied window lies inside the source noise and the
\* target, is centred in each, and has in each dimension the extent
\* min(source, target): a source at least as large as the target fills every
\* target cell of that dimension, a smaller one is placed whole and centred.
C26_WindowCentredWithMinExtent ==
    noise_call # None => WindowAsStated(1) /\ WindowAsStated(2)

\* The window is as stated in every call in which no dimension has a source
\* that is larger than the target by an odd number of cells.
WindowUnlessOddCrop ==
    (/\ noise_call # None
     /\ \A k \in 1..2 :
           noise_call.noise_shape[k] > noise_call.shape[k]
               => (noise_call.noise_shape[k] - noise_call.shape[k]) % 2 = 0)
        => WindowAsStated(1) /\ WindowAsStated(2)

\* text is the metadata string of image: of the grid the string of index 0,
\* of the image of iteration n and batch position i the string of
\* index n * batch_size + i; a mask output has none.
Describes(text, image) ==
    \/ image = <<"grid">> /\ text[2] = 0
    \/ image[1] = "image" /\ text[2] = image[2] * p.batch_size + image[3]

====
